---- MODULE Spec2Model ----
(***************************************************************************)
(* Model of the uidmonitor lifecycle processor (UIDProcessor) and of the   *)
(* file-backed context store it persists its units in.                     *)
(*                                                                         *)
(* Strings are sequences of one-character strings, so that the string      *)
(* operations of the code (concatenation, LastIndex, TrimLeft, ParseUint,  *)
(* Atoi, FormatUint, the regStop pattern) are computed, not assumed.       *)
(***************************************************************************)
EXTENDS Integers, Sequences, FiniteSets, TLC

VARIABLES putoPidMap, pidToPU, contextStore, cgroups, last, rs, hist,
          walk, mutex, thr

vars == <<putoPidMap, pidToPU, contextStore, cgroups, last, rs, hist,
          walk, mutex, thr>>

(***************************************************************************)
(* Bounds of the model.                                                    *)
(***************************************************************************)
\* processes of the host are numbered 1..MaxPid
MaxPid == 2
\* unit identifiers are u1..uMaxUnit
MaxUnit == 2
\* the metadata extractor hands out the marks 1..MaxMark
MaxMark == 2
\* events delivered in one behaviour
MaxEvents == 4
\* handler calls of one behaviour during which something fails
MaxFaults == 1

(***************************************************************************)
(* Strings.                                                                *)
(***************************************************************************)
EmptyStr == << >>

Digits == <<"0", "1", "2", "3", "4", "5", "6", "7", "8", "9">>

IsDigit(c) == \E i \in 1..10 : Digits[i] = c

DigitVal(c) == (CHOOSE i \in 1..10 : Digits[i] = c) - 1

\* the character class [a-zA-Z0-9_] of regStart and regStop
WordChars ==
    {"a", "b", "c", "d", "e", "f", "g", "h", "i", "j", "k", "l", "m",
     "n", "o", "p", "q", "r", "s", "t", "u", "v", "w", "x", "y", "z",
     "A", "B", "C", "D", "E", "F", "G", "H", "I", "J", "K", "L", "M",
     "N", "O", "P", "Q", "R", "S", "T", "U", "V", "W", "X", "Y", "Z",
     "0", "1", "2", "3", "4", "5", "6", "7", "8", "9", "_"}

\* strings.LastIndex(s, "/"), 1-based; 0 when s has no "/"
LastIndexSlash(s) ==
    IF \E i \in 1..Len(s) : s[i] = "/"
    THEN CHOOSE i \in 1..Len(s) : s[i] = "/" /\ \A j \in (i+1)..Len(s) : s[j] # "/"
    ELSE 0

\* s[strings.LastIndex(s, "/")+1:]
AfterLastSlash(s) == SubSeq(s, LastIndexSlash(s) + 1, Len(s))

\* strings.TrimLeft(s, "/")
RECURSIVE TrimLeftSlash(_)
TrimLeftSlash(s) ==
    IF s # EmptyStr /\ Head(s) = "/" THEN TrimLeftSlash(Tail(s)) ELSE s

\* value of a string of decimal digits
RECURSIVE DecValue(_)
DecValue(s) ==
    IF s = EmptyStr THEN 0
    ELSE 10 * DecValue(SubSeq(s, 1, Len(s) - 1)) + DigitVal(s[Len(s)])

\* strconv.ParseUint(s, 10, 32); the numbers of the model have at most nine
\* digits and so stay below 2^32
ParseUint(s) ==
    IF s # EmptyStr /\ (\A i \in 1..Len(s) : IsDigit(s[i])) /\ Len(s) <= 9
    THEN [ok |-> TRUE, val |-> DecValue(s)]
    ELSE [ok |-> FALSE, val |-> 0]

\* strconv.Atoi(s), for the strings of the model (no sign character)
Atoi(s) ==
    IF s # EmptyStr /\ (\A i \in 1..Len(s) : IsDigit(s[i])) /\ Len(s) <= 9
    THEN [ok |-> TRUE, val |-> DecValue(s)]
    ELSE [ok |-> FALSE, val |-> 0]

\* strconv.FormatUint(n, 10): how the kernel and the classifier print numbers
RECURSIVE FormatUint(_)
FormatUint(n) ==
    IF n < 10 THEN <<Digits[n + 1]>>
    ELSE Append(FormatUint(n \div 10), Digits[(n % 10) + 1])

\* the characters in byte order, for the sorted listings of ioutil.ReadDir
CharOrder ==
    <<"-", "/", "0", "1", "2", "3", "4", "5", "6", "7", "8", "9",
      "A", "B", "C", "D", "E", "F", "G", "H", "I", "J", "K", "L", "M",
      "N", "O", "P", "Q", "R", "S", "T", "U", "V", "W", "X", "Y", "Z", "_",
      "a", "b", "c", "d", "e", "f", "g", "h", "i", "j", "k", "l", "m",
      "n", "o", "p", "q", "r", "s", "t", "u", "v", "w", "x", "y", "z">>

CharRank(c) == CHOOSE i \in 1..Len(CharOrder) : CharOrder[i] = c

\* s sorts before t
RECURSIVE StrLess(_, _)
StrLess(s, t) ==
    IF t = EmptyStr THEN FALSE
    ELSE IF s = EmptyStr THEN TRUE
    ELSE IF Head(s) # Head(t) THEN CharRank(Head(s)) < CharRank(Head(t))
    ELSE StrLess(Tail(s), Tail(t))

\* the strings of a set in sorted order
RECURSIVE Sorted(_)
Sorted(S) ==
    IF S = {} THEN << >>
    ELSE LET first == CHOOSE x \in S : \A y \in S \ {x} : StrLess(x, y)
         IN <<first>> \o Sorted(S \ {first})

\* concatenation of a sequence of sequences
RECURSIVE Flatten(_)
Flatten(ss) == IF ss = << >> THEN << >> ELSE Head(ss) \o Flatten(Tail(ss))

Range(f) == {f[x] : x \in DOMAIN f}

triremeBaseCgroup == <<"/", "t", "r", "i", "r", "e", "m", "e">>

\* regStart: ^[a-zA-Z0-9_].{0,11}$
regStartMatch(s) ==
    /\ Len(s) >= 1
    /\ Len(s) <= 12
    /\ s[1] \in WordChars

\* regStop: ^/trireme/[a-zA-Z0-9_].{0,11}$
regStopMatch(s) ==
    /\ Len(s) >= Len(triremeBaseCgroup) + 2
    /\ Len(s) <= Len(triremeBaseCgroup) + 13
    /\ SubSeq(s, 1, Len(triremeBaseCgroup)) = triremeBaseCgroup
    /\ s[Len(triremeBaseCgroup) + 1] = "/"
    /\ s[Len(triremeBaseCgroup) + 2] \in WordChars

(***************************************************************************)
(* The inputs.                                                             *)
(***************************************************************************)
\* process identifiers as the events and the kernel print them
PidStr(n) == FormatUint(n)

\* a process identifier that is not a number
BadPid == <<"x">>

NumPids == {PidStr(n) : n \in 1..MaxPid}

Pids == NumPids \cup {BadPid}

UnitStr(n) == <<"u">> \o FormatUint(n)

Units == {UnitStr(n) : n \in 1..MaxUnit}

\* marks a metadata extractor can return: numbers, no mark, not a number
BadMark == <<"m">>

Marks == {FormatUint(n) : n \in 1..MaxMark} \cup {EmptyStr, BadMark}

\* rpcmonitor.EventInfo, the fields the processor reads
EventInfo(puid, pid, cgroup) == [PUID |-> puid, PID |-> pid, Cgroup |-> cgroup]

StartEvents == {EventInfo(u, p, EmptyStr) : u \in Units, p \in Pids}

\* the cgroup path of the kernel's release notification for cgroup p
CgroupPath(p) == triremeBaseCgroup \o <<"/">> \o p

StopEvents ==
    {EventInfo(EmptyStr, EmptyStr, CgroupPath(p)) : p \in Pids}
    \cup {EventInfo(u, EmptyStr, EmptyStr) : u \in Units}
    \cup {EventInfo(AfterLastSlash(triremeBaseCgroup), EmptyStr, EmptyStr),
          EventInfo(EmptyStr, EmptyStr, <<"/">> \o BadPid)}

(***************************************************************************)
(* The record of the last handler call: the event, the collaborator calls  *)
(* it made in order, and whether it returned an error.                     *)
(***************************************************************************)
Call(fn, id, arg, ok) == [fn |-> fn, id |-> id, arg |-> arg, ok |-> ok]

Outcome(op, ev, calls, err) == [op |-> op, ev |-> ev, calls |-> calls, err |-> err]

NoEvent == EventInfo(EmptyStr, EmptyStr, EmptyStr)

(***************************************************************************)
(* cache.Cache: Add refuses a key that is present, Remove drops the key.   *)
(***************************************************************************)
CacheAdd(c, k, v) == IF k \in DOMAIN c THEN c ELSE (k :> v) @@ c

\* (a Remove that leaves the key)
CacheRemoveKept(c, k) == c

CacheRemove(c, k) == [x \in DOMAIN c \ {k} |-> c[x]]

EmptyCache == [x \in {} |-> {}]

(***************************************************************************)
(* The cgroup classifier (cgnetcls): a cgroup has a name, a mark (0 until  *)
(* one is assigned) and the set of live processes in it.                   *)
(***************************************************************************)
Creategroup(cg, name) ==
    IF name \in DOMAIN cg THEN cg ELSE (name :> [mark |-> 0, procs |-> {}]) @@ cg

DeleteCgroup(cg, name, fails) ==
    IF fails THEN cg ELSE [x \in DOMAIN cg \ {name} |-> cg[x]]

AssignMark(cg, name, mark) == [cg EXCEPT ![name].mark = mark]

\* a process is in one cgroup of the hierarchy at a time
AddProcess(cg, name, pid) ==
    [x \in DOMAIN cg |->
        [cg[x] EXCEPT !.procs = IF x = name THEN @ \cup {pid} ELSE @ \ {pid}]]

GetCgroupList(cg) == Sorted(DOMAIN cg)

ListCgroupProcesses(cg, name) == Sorted({PidStr(n) : n \in cg[name].procs})

GetAssignedMarkVal(cg, name) == FormatUint(cg[name].mark)

(***************************************************************************)
(* contextstore: one directory per id, holding the serialized record.      *)
(***************************************************************************)
\* filepath.Join(storebasePath, contextID), relative to the base path
StoreKey(contextID) == TrimLeftSlash(contextID)

NoFile == [kind |-> "nofile"]

Corrupt == [kind |-> "corrupt"]

\* (a record that does not take the mark)
StoredContextNoMark(mark, ev) == [kind |-> "record", MarkVal |-> EmptyStr, EventInfo |-> ev]

\* StoredContext
StoredContext(mark, ev) == [kind |-> "record", MarkVal |-> mark, EventInfo |-> ev]

\* (a store that refuses an id it holds)
StoreContextInsert(st, contextID, record, fault) ==
    LET folder == StoreKey(contextID) IN
    IF folder \in DOMAIN st
    THEN [st |-> st, err |-> TRUE]
    ELSE IF fault = "MkdirAll"
    THEN [st |-> st, err |-> TRUE]
    ELSE LET st1 == (folder :> NoFile) @@ st IN
         IF fault = "WriteFile"
         THEN [st |-> st1, err |-> TRUE]
         ELSE IF fault = "Truncate"
         THEN [st |-> [st1 EXCEPT ![folder] = Corrupt], err |-> TRUE]
         ELSE [st |-> [st1 EXCEPT ![folder] = record], err |-> FALSE]

\* StoreContext: fault is "MkdirAll", "WriteFile" (the file cannot be opened),
\* "Truncate" (the write fails after the file was truncated) or "none"
StoreContext(st, contextID, record, fault) ==
    LET folder == StoreKey(contextID) IN
    IF folder \notin DOMAIN st /\ fault = "MkdirAll"
    THEN [st |-> st, err |-> TRUE]
    ELSE LET st1 == IF folder \in DOMAIN st THEN st ELSE (folder :> NoFile) @@ st IN
         IF fault = "WriteFile"
         THEN [st |-> st1, err |-> TRUE]
         ELSE IF fault = "Truncate"
         THEN [st |-> [st1 EXCEPT ![folder] = Corrupt], err |-> TRUE]
         ELSE [st |-> [st1 EXCEPT ![folder] = record], err |-> FALSE]

\* (a walk that ends without the empty string)
WalkStoreNoSentinel(st) == Sorted(DOMAIN st)

\* WalkStore: the ids in the order of ioutil.ReadDir, then the empty string
WalkStore(st) == Append(Sorted(DOMAIN st), EmptyStr)

\* the errors of the store
Unknown == "Unknown ContextID"
Unable == "Unable to retrieve context from store"
FailedToRemove == "Failed to remove invalide context"
Invalid == "json.Unmarshal"
RemoveAllError == "os.RemoveAll"

\* RemoveContext: fails is the failure of os.RemoveAll
RemoveContext(st, contextID, fails) ==
    LET folder == StoreKey(contextID) IN
    IF folder \notin DOMAIN st
    THEN [st |-> st, err |-> TRUE, msg |-> Unknown]
    ELSE IF fails
         THEN [st |-> st, err |-> TRUE, msg |-> RemoveAllError]
         ELSE [st |-> [x \in DOMAIN st \ {folder} |-> st[x]], err |-> FALSE,
               msg |-> ""]

\* (a GetContextInfo that leaves the record it cannot read)
GetContextInfoKeepsInvalid(st, contextID, fails) ==
    LET folder == StoreKey(contextID) IN
    IF folder \notin DOMAIN st
    THEN [st |-> st, err |-> TRUE, rec |-> NoFile, msg |-> Unknown]
    ELSE IF st[folder] = NoFile
         THEN [st |-> st, err |-> TRUE, rec |-> NoFile, msg |-> Unable]
         ELSE IF st[folder] = Corrupt
              THEN [st |-> st, err |-> TRUE, rec |-> NoFile, msg |-> Invalid]
              ELSE [st |-> st, err |-> FALSE, rec |-> st[folder], msg |-> ""]

\* GetContextInfo
GetContextInfo(st, contextID, fails) ==
    LET folder == StoreKey(contextID) IN
    IF folder \notin DOMAIN st
    THEN [st |-> st, err |-> TRUE, rec |-> NoFile, msg |-> Unknown]
    ELSE IF st[folder] = NoFile
         THEN [st |-> st, err |-> TRUE, rec |-> NoFile, msg |-> Unable]
         ELSE IF st[folder] = Corrupt
              THEN LET rerr == RemoveContext(st, contextID, fails) IN
                   [st |-> rerr.st, err |-> TRUE, rec |-> NoFile,
                    msg |-> IF rerr.err THEN FailedToRemove ELSE Invalid]
              ELSE [st |-> st, err |-> FALSE, rec |-> st[folder], msg |-> ""]

(***************************************************************************)
(* Collaborator failures.  A handler call is made with the set F of the    *)
(* collaborator calls that fail during it.                                 *)
(***************************************************************************)
StartFaults ==
    {{}}
    \cup {{c} : c \in {"metadataExtractor", "SetPURuntime", "EventStart",
                       "Creategroup", "AssignMark", "AddProcess",
                       "DeleteCgroup", "MkdirAll", "WriteFile", "Truncate"}}
    \cup {{c, "DeleteCgroup"} : c \in {"AssignMark", "AddProcess"}}

StopFaults ==
    (SUBSET {"EventStop", "RemoveAll", "EventDestroy", "DeleteCgroup"})
    \cup {{"Deletebasepath"}}

StoreFault(F) ==
    IF "MkdirAll" \in F THEN "MkdirAll"
    ELSE IF "WriteFile" \in F THEN "WriteFile"
    ELSE IF "Truncate" \in F THEN "Truncate" ELSE "none"

\* policy.PURuntime, the part the processor reads: Options().CgroupMark
PURuntime(mark) == [CgroupMark |-> mark]

RuntimeInfos == {PURuntime(m) : m \in Marks}

\* puToPidEntry
puToPidEntry(pidlist, info, published) ==
    [pidlist |-> pidlist, Info |-> info, publishedContextID |-> published]

(***************************************************************************)
(* UIDProcessor.processLinuxServiceStart                                   *)
(***************************************************************************)
processLinuxServiceStart(cg, event, runtimeInfo, F) ==
    LET markval == runtimeInfo.CgroupMark
        cCreate == Call("Creategroup", event.PID, "", "Creategroup" \notin F)
        cg1 == Creategroup(cg, event.PID)
        cDelete == Call("DeleteCgroup", event.PID, "", "DeleteCgroup" \notin F)
        cgDel(c) == DeleteCgroup(c, event.PID, "DeleteCgroup" \in F)
        mark == ParseUint(markval)
        cAssign == Call("AssignMark", event.PID, "", "AssignMark" \notin F)
        cg2 == AssignMark(cg1, event.PID, mark.val)
        pid == Atoi(event.PID)
        cAdd == Call("AddProcess", event.PID, "", "AddProcess" \notin F)
    IN
    IF ~cCreate.ok
    THEN [cg |-> cg, calls |-> <<cCreate>>, err |-> TRUE]
    ELSE IF markval = EmptyStr
    THEN [cg |-> cgDel(cg1), calls |-> <<cCreate, cDelete>>, err |-> TRUE]
    ELSE IF ~mark.ok
    THEN [cg |-> cg1, calls |-> <<cCreate>>, err |-> TRUE]
    ELSE IF ~cAssign.ok
    THEN [cg |-> cgDel(cg1), calls |-> <<cCreate, cAssign, cDelete>>, err |-> TRUE]
    ELSE IF ~pid.ok
    THEN [cg |-> cg2, calls |-> <<cCreate, cAssign>>, err |-> TRUE]
    ELSE IF ~cAdd.ok
    THEN [cg |-> cgDel(cg2), calls |-> <<cCreate, cAssign, cAdd, cDelete>>,
          err |-> TRUE]
    ELSE [cg |-> AddProcess(cg2, event.PID, pid.val),
          calls |-> <<cCreate, cAssign, cAdd>>, err |-> FALSE]

\* (the policy handler is given the raw identifier)
publishedContextIDRaw(contextID, runtimeInfo) == contextID

\* Start, unit Unseen: the identifier the policy handler is given
publishedContextID(contextID, runtimeInfo) == contextID \o runtimeInfo.CgroupMark

\* (a Start that does not add the process to the unit it has an entry for)
addPidDropped(pidlist, pid) == pidlist

\* Start, unit Active: the process joins the member set
addPid(pidlist, pid) == pidlist \cup {pid}

\* (a Start that leaves the process out of the index)
indexPidSkipped(p2pu, pid, contextID) == p2pu

\* Start, unit Active: the process is indexed under the unit
indexPid(p2pu, pid, contextID) == CacheAdd(p2pu, pid, contextID)

\* (a Stop that forgets the member set)
deletePidForgotten(pidlist, stoppedpid) == pidlist

\* Stop: the process leaves the member set
deletePid(pidlist, stoppedpid) == pidlist \ {stoppedpid}

\* (the test of Stop inverted)
othersLeftInverted(pidlist) == pidlist = {}

\* Stop: other processes of the unit are left, only the pid is destroyed
othersLeft(pidlist) == pidlist # {}

(***************************************************************************)
(* UIDProcessor.Start: the state after the call, the collaborator calls    *)
(* made and the error returned.  runtimeInfo is what the metadata          *)
(* extractor returns when it is asked.                                     *)
(***************************************************************************)
Start(puto, p2pu, st, cg, eventInfo, runtimeInfo, F) ==
    LET contextID == eventInfo.PUID
        aborted(c, calls) ==
            [puto |-> puto, p2pu |-> p2pu, st |-> st, cg |-> c,
             calls |-> calls, err |-> TRUE]
    IN
    IF contextID \notin DOMAIN puto
    THEN
        LET cExtract == Call("metadataExtractor", contextID, "",
                             "metadataExtractor" \notin F)
            published == publishedContextID(contextID, runtimeInfo)
            cSet == Call("SetPURuntime", published, "",
                         "SetPURuntime" \notin F)
            cStart == Call("HandlePUEvent", published, "EventStart",
                           "EventStart" \notin F)
            svc == processLinuxServiceStart(cg, eventInfo, runtimeInfo, F)
            cCollect == Call("CollectContainerEvent", contextID, "", TRUE)
            entry == puToPidEntry({eventInfo.PID}, runtimeInfo, published)
            sc == StoreContext(st, contextID,
                               StoredContext(runtimeInfo.CgroupMark, eventInfo),
                               StoreFault(F))
            cStore == Call("StoreContext", contextID, "", ~sc.err)
        IN
        IF ~cExtract.ok THEN aborted(cg, <<cExtract>>)
        ELSE IF ~cSet.ok THEN aborted(cg, <<cExtract, cSet>>)
        ELSE IF ~cStart.ok THEN aborted(cg, <<cExtract, cSet, cStart>>)
        ELSE IF svc.err
        THEN aborted(svc.cg, <<cExtract, cSet, cStart>> \o svc.calls)
        ELSE [puto |-> CacheAdd(puto, contextID, entry),
              p2pu |-> CacheAdd(p2pu, eventInfo.PID, contextID),
              st |-> sc.st,
              cg |-> svc.cg,
              calls |-> <<cExtract, cSet, cStart>> \o svc.calls
                        \o <<cCollect, cStore>>,
              err |-> sc.err]
    ELSE
        LET pids == puto[contextID]
            svc == processLinuxServiceStart(cg, eventInfo, pids.Info, F)
        IN
        [puto |-> [puto EXCEPT ![contextID].pidlist = addPid(@, eventInfo.PID)],
         p2pu |-> indexPid(p2pu, eventInfo.PID, eventInfo.PUID),
         st |-> st,
         cg |-> svc.cg,
         calls |-> svc.calls,
         err |-> svc.err]

(***************************************************************************)
(* UIDProcessor.generateContextID                                          *)
(***************************************************************************)
generateContextID(eventInfo) ==
    IF eventInfo.Cgroup # EmptyStr /\ ~regStopMatch(eventInfo.Cgroup)
    THEN [err |-> TRUE, contextID |-> EmptyStr]
    ELSE LET contextID == IF eventInfo.Cgroup # EmptyStr
                          THEN AfterLastSlash(eventInfo.Cgroup)
                          ELSE eventInfo.PUID
         IN [err |-> FALSE, contextID |-> <<"/">> \o AfterLastSlash(contextID)]

(***************************************************************************)
(* UIDProcessor.Stop                                                       *)
(***************************************************************************)
\* (a Stop that leaves the process in the index)
removePidForgotten(p2pu, stoppedpid) == p2pu

\* Stop: the process leaves the Process->Unit index
removePid(p2pu, stoppedpid) == CacheRemove(p2pu, stoppedpid)

\* (a teardown that returns the first error it met)
teardownErrorFirst(cStop, cRemove, cDestroy, cDelete) ==
    ~cStop.ok \/ ~cRemove.ok \/ ~cDestroy.ok \/ ~cDelete.ok

\* Stop, last member: the error returned is that of the cgroup deletion, the
\* others are logged
teardownError(cStop, cRemove, cDestroy, cDelete) == ~cDelete.ok

Stop(puto, p2pu, st, cg, eventInfo, F) ==
    LET gen == generateContextID(eventInfo)
        unchanged(calls, err) ==
            [puto |-> puto, p2pu |-> p2pu, st |-> st, cg |-> cg,
             calls |-> calls, err |-> err]
        stoppedpid == TrimLeftSlash(gen.contextID)
        contextID == IF stoppedpid \in DOMAIN p2pu
                     THEN p2pu[stoppedpid] ELSE gen.contextID
        cDelete == Call("DeleteCgroup", stoppedpid, "", "DeleteCgroup" \notin F)
        cgDel == DeleteCgroup(cg, stoppedpid, "DeleteCgroup" \in F)
    IN
    IF gen.err THEN unchanged(<< >>, TRUE)
    ELSE IF gen.contextID = triremeBaseCgroup
    THEN unchanged(<<Call("Deletebasepath", gen.contextID, "",
                          "Deletebasepath" \notin F)>>, FALSE)
    ELSE IF contextID \notin DOMAIN puto THEN unchanged(<< >>, FALSE)
    ELSE
        LET ctx == puto[contextID]
            published == ctx.publishedContextID
            pidlist == deletePid(ctx.pidlist, stoppedpid)
            p2pu1 == removePid(p2pu, stoppedpid)
            cStop == Call("HandlePUEvent", published, "EventStop",
                          "EventStop" \notin F)
            cForget == Call("putoPidMap.Remove", contextID, "", TRUE)
            rc == RemoveContext(st, contextID, "RemoveAll" \in F)
            cRemove == Call("RemoveContext", contextID, "", ~rc.err)
            cDestroy == Call("HandlePUEvent", published, "EventDestroy",
                             "EventDestroy" \notin F)
        IN
        IF othersLeft(pidlist)
        THEN [puto |-> [puto EXCEPT ![contextID].pidlist = pidlist],
              p2pu |-> p2pu1, st |-> st, cg |-> cgDel,
              calls |-> <<cDelete>>, err |-> ~cDelete.ok]
        ELSE [puto |-> CacheRemove(puto, contextID),
              p2pu |-> p2pu1, st |-> rc.st, cg |-> cgDel,
              calls |-> <<cStop, cForget, cRemove, cDestroy, cDelete>>,
              err |-> teardownError(cStop, cRemove, cDestroy, cDelete)]

(***************************************************************************)
(* UIDProcessor.ReSync, first loop: the cgroups without a live process are *)
(* deleted, the others are grouped by their mark.  failing is the set of   *)
(* cgroups whose deletion fails.                                           *)
(***************************************************************************)
\* (a sweep that does not look at the list of processes)
EmptyCgroupsAll(cg) == Range(GetCgroupList(cg))

EmptyCgroups(cg) ==
    {c \in Range(GetCgroupList(cg)) : Len(ListCgroupProcesses(cg, c)) = 0}

SweepCgroups(cg, failing) ==
    [x \in DOMAIN cg \ (EmptyCgroups(cg) \ failing) |-> cg[x]]

marktoPID(cg) ==
    LET live == SelectSeq(GetCgroupList(cg), LAMBDA c : c \notin EmptyCgroups(cg))
        marks == {GetAssignedMarkVal(cg, c) : c \in Range(live)}
    IN [markval \in marks |->
          LET carrying == SelectSeq(live,
                                    LAMBDA c : GetAssignedMarkVal(cg, c) = markval)
          IN Flatten([i \in 1..Len(carrying) |->
                        ListCgroupProcesses(cg, carrying[i])])]

(***************************************************************************)
(* UIDProcessor.ReSync, one id of the walk: the record is read; an         *)
(* unreadable one is skipped, one whose mark no live process carries is    *)
(* removed, the others are to be replayed for the pids of their mark.      *)
(***************************************************************************)
\* (the test of ReSync inverted)
noPidsInverted(m2p, mark) == mark \in DOMAIN m2p

\* ReSync: no live process carries the mark of the record
noPids(m2p, mark) == mark \notin DOMAIN m2p

\* ReSync: marktoPID[mark], the nil list when the mark has no entry
pidsOf(m2p, mark) == IF mark \in DOMAIN m2p THEN m2p[mark] ELSE << >>

ReSyncRecord(st, m2p, contextID, F) ==
    LET id == <<"/">> \o contextID
        got == GetContextInfo(st, id, "RemoveAll" \in F)
        cGet == Call("GetContextInfo", id, "", ~got.err)
        rc == RemoveContext(st, id, "RemoveAll" \in F)
        cRemove == Call("RemoveContext", id, "", ~rc.err)
    IN
    IF got.err
    THEN [st |-> got.st, calls |-> <<cGet>>, pids |-> << >>, rec |-> NoFile]
    ELSE IF noPids(m2p, got.rec.MarkVal)
    THEN [st |-> rc.st, calls |-> <<cGet, cRemove>>, pids |-> << >>,
          rec |-> got.rec]
    ELSE [st |-> st, calls |-> <<cGet>>, pids |-> pidsOf(m2p, got.rec.MarkVal),
          rec |-> got.rec]

(***************************************************************************)
(* The state machine.  A handler call is one step: it leaves the state the *)
(* call produced together with the record of the call in last; the step    *)
(* Return hands control back to the transport, which delivers the next     *)
(* event.  hist counts the events delivered and the calls during which a   *)
(* collaborator failed or the extractor returned an unusable mark.         *)
(***************************************************************************)
Idle == [pc |-> "idle"]

Returned == Outcome("none", NoEvent, << >>, FALSE)

\* hist, the history the properties are stated with:
\*   events, faults  the events delivered and the calls that met a failure
\*   clean, track    while every event so far was a Start that succeeded for a
\*                   process tracked by no other unit, or a Stop: the unit
\*                   each started and not yet stopped process was started in
\*   phase, pre      "down" after a restart, with the member sets the units
\*                   had when the controller went down; "resync" while the
\*                   ReSync that follows runs without a failure, "recovered"
\*                   when it has returned; "up" otherwise
\*   st0, cg0        the context store and the cgroups when ReSync was called
\*   fresh           <<unit, pid>> when the event before was a Start of that
\*                   pid for that unit, which was Unseen
\*   closed          <<unit, pid>> when the last event was the Stop of pid and
\*                   the one before the Start of pid for unit, then Unseen
NoHist ==
    [events |-> 0, faults |-> 0, clean |-> TRUE, track |-> EmptyCache,
     phase |-> "up", pre |-> EmptyCache, st0 |-> EmptyCache, cg0 |-> EmptyCache,
     fresh |-> << >>, closed |-> << >>]

\* no walk of the store is open
NoWalk == [pc |-> "none"]

\* sync.Mutex of the processor
Unlocked == 0

\* goroutines that deliver events to the processor
MaxThreads == 2

Threads == 1..MaxThreads

\* no call of the processor is in progress
NoCalls == [t \in Threads |-> [pc |-> "idle"]]

\* a handler that runs alone: it takes the lock and gives it back within its
\* step, and the walk ReSync reads is rs.walker
Alone == UNCHANGED <<walk, mutex, thr>>

Init ==
    /\ putoPidMap = EmptyCache
    /\ pidToPU = EmptyCache
    /\ contextStore = EmptyCache
    /\ cgroups = EmptyCache
    /\ last = Returned
    /\ rs = Idle
    /\ hist = NoHist
    /\ walk = NoWalk
    /\ mutex = Unlocked
    /\ thr = NoCalls

Ready == rs.pc = "idle" /\ last = Returned /\ hist.events < MaxEvents

\* the calls of a handler that failed
FailedCalls(calls) == {i \in 1..Len(calls) : ~calls[i].ok}

\* every failure of F met the call it is a failure of
Hit(F, calls) ==
    \A c \in F : \E i \in FailedCalls(calls) :
        \/ calls[i].fn = c
        \/ calls[i].fn = "HandlePUEvent" /\ calls[i].arg = c
        \/ calls[i].fn = "StoreContext" /\ c \in {"MkdirAll", "WriteFile", "Truncate"}
        \/ calls[i].fn \in {"RemoveContext", "GetContextInfo"} /\ c = "RemoveAll"

Count(h, faulty) ==
    [h EXCEPT !.events = @ + 1, !.faults = @ + (IF faulty THEN 1 ELSE 0),
              !.fresh = << >>, !.closed = << >>]

\* the event is not part of a recovery: a restart that was pending is settled
Settle(h) == [h EXCEPT !.phase = "up", !.pre = EmptyCache]

Unclean(h) == [h EXCEPT !.clean = FALSE, !.track = EmptyCache]

\* the state a handler call leaves
Apply(op, eventInfo, r) ==
    /\ putoPidMap' = r.puto
    /\ pidToPU' = r.p2pu
    /\ contextStore' = r.st
    /\ cgroups' = r.cg
    /\ last' = Outcome(op, eventInfo, r.calls, r.err)

\* an inbound Start event
StartEvent ==
    /\ Ready
    /\ \E eventInfo \in StartEvents, runtimeInfo \in RuntimeInfos, F \in StartFaults :
         LET r == Start(putoPidMap, pidToPU, contextStore, cgroups,
                        eventInfo, runtimeInfo, F)
             distinct == eventInfo.PID \in DOMAIN hist.track
                            => hist.track[eventInfo.PID] = eventInfo.PUID
             h == Settle(Count(hist, r.err))
         IN /\ Hit(F, r.calls)
            /\ r.err => hist.faults < MaxFaults
            /\ Apply("Start", eventInfo, r)
            /\ hist' = [(IF hist.clean /\ ~r.err /\ distinct
                         THEN [h EXCEPT !.track =
                                  (eventInfo.PID :> eventInfo.PUID) @@ @]
                         ELSE Unclean(h))
                       EXCEPT !.fresh = IF eventInfo.PUID \in DOMAIN putoPidMap
                                        THEN << >>
                                        ELSE <<eventInfo.PUID, eventInfo.PID>>]
    /\ UNCHANGED rs
    /\ Alone

\* the process a Stop event names: the last component of its cgroup path
StoppedProcess(eventInfo) == AfterLastSlash(eventInfo.Cgroup)

\* an inbound Stop event
StopEvent ==
    /\ Ready
    /\ \E eventInfo \in StopEvents, F \in StopFaults :
         LET r == Stop(putoPidMap, pidToPU, contextStore, cgroups, eventInfo, F)
             h == Settle(Count(hist, F # {}))
         IN /\ Hit(F, r.calls)
            /\ F # {} => hist.faults < MaxFaults
            /\ Apply("Stop", eventInfo, r)
            /\ hist' = [h EXCEPT
                          !.track = [p \in DOMAIN @ \ {StoppedProcess(eventInfo)}
                                       |-> @[p]],
                          !.closed = IF hist.fresh # << >>
                                        /\ hist.fresh[2] = StoppedProcess(eventInfo)
                                     THEN hist.fresh ELSE << >>]
    /\ UNCHANGED rs
    /\ Alone

\* the controller is restarted: both indices are lost, the context store and
\* the cgroups stay
Crash ==
    /\ Ready
    /\ putoPidMap' = EmptyCache
    /\ pidToPU' = EmptyCache
    /\ hist' = [Unclean(Count(hist, FALSE)) EXCEPT
                  !.phase = "down",
                  !.pre = [u \in DOMAIN putoPidMap |-> putoPidMap[u].pidlist]]
    /\ UNCHANGED <<contextStore, cgroups, last, rs>>
    /\ Alone

\* ReSync is called: the walk is obtained and the cgroups are swept
ReSyncBegin ==
    /\ Ready
    /\ \/ /\ hist.faults < MaxFaults
          /\ last' = Outcome("ReSync", NoEvent,
                             <<Call("WalkStore", EmptyStr, "", FALSE)>>, TRUE)
          /\ hist' = Settle(Unclean(Count(hist, TRUE)))
          /\ UNCHANGED <<cgroups, rs>>
       \/ \E failing \in SUBSET EmptyCgroups(cgroups) :
            /\ failing # {} => hist.faults < MaxFaults
            /\ cgroups' = SweepCgroups(cgroups, failing)
            /\ rs' = [pc |-> "walk",
                      marktoPID |-> marktoPID(cgroups),
                      walker |-> WalkStore(contextStore),
                      eventInfo |-> NoEvent,
                      pids |-> << >>,
                      replays |-> << >>,
                      calls |-> <<Call("WalkStore", EmptyStr, "", TRUE)>>
                                \o [i \in 1..Len(Sorted(EmptyCgroups(cgroups))) |->
                                      Call("DeleteCgroup",
                                           Sorted(EmptyCgroups(cgroups))[i], "",
                                           Sorted(EmptyCgroups(cgroups))[i]
                                              \notin failing)]]
            /\ hist' = [Unclean(Count(hist, failing # {})) EXCEPT
                          !.phase = IF hist.phase = "down" /\ failing = {}
                                    THEN "resync" ELSE "up",
                          !.pre = IF hist.phase = "down" /\ failing = {}
                                  THEN @ ELSE EmptyCache,
                          !.st0 = contextStore,
                          !.cg0 = cgroups]
            /\ UNCHANGED last
    /\ UNCHANGED <<putoPidMap, pidToPU, contextStore>>
    /\ Alone

\* a step of ReSync met a failure
Failure(h, faulty) ==
    IF faulty THEN [Settle(h) EXCEPT !.faults = @ + 1] ELSE h

\* (a walk given up at the first id that met a failure)
walkAborted(walker, failed) == IF failed THEN <<EmptyStr>> ELSE Tail(walker)

\* ReSync: whatever happened to the id, the loop goes on with the next one
walkAfter(walker, failed) == Tail(walker)

\* ReSync takes the next id from the walk
ReSyncNext ==
    /\ rs.pc = "walk"
    /\ Head(rs.walker) # EmptyStr
    /\ \E F \in {{}, {"RemoveAll"}} :
         LET contextID == Head(rs.walker)
             r == ReSyncRecord(contextStore, rs.marktoPID, contextID, F)
         IN /\ Hit(F, r.calls)
            /\ F # {} => hist.faults < MaxFaults
            /\ contextStore' = r.st
            /\ rs' = [rs EXCEPT !.pc = IF r.pids = << >> THEN "walk" ELSE "replay",
                                !.walker = walkAfter(@, FailedCalls(r.calls) # {}),
                                !.eventInfo = IF r.pids = << >> THEN NoEvent
                                              ELSE r.rec.EventInfo,
                                !.pids = r.pids,
                                !.calls = @ \o r.calls]
            /\ hist' = Failure(hist, F # {})
    /\ UNCHANGED <<putoPidMap, pidToPU, cgroups, last>>
    /\ Alone

\* (a replay of the stored event as it is)
ReplayEventStored(eventInfo, pid) == eventInfo

\* the event ReSync replays for a live pid: the stored event with that pid
ReplayEvent(eventInfo, pid) == [eventInfo EXCEPT !.PID = pid]

\* ReSync: whatever the replay returned, the next pid is replayed
pidsAfter(pids, failed) == Tail(pids)

\* ReSync replays Start for the next live pid of the record's mark
ReSyncReplay ==
    /\ rs.pc = "replay"
    /\ \E runtimeInfo \in RuntimeInfos, F \in StartFaults :
         LET eventInfo == ReplayEvent(rs.eventInfo, Head(rs.pids))
             r == Start(putoPidMap, pidToPU, contextStore, cgroups,
                        eventInfo, runtimeInfo, F)
         IN /\ Hit(F, r.calls)
            /\ r.err => hist.faults < MaxFaults
            /\ putoPidMap' = r.puto
            /\ pidToPU' = r.p2pu
            /\ contextStore' = r.st
            /\ cgroups' = r.cg
            /\ rs' = [rs EXCEPT !.pc = IF pidsAfter(rs.pids, r.err) = << >>
                                      THEN "walk" ELSE "replay",
                                !.pids = pidsAfter(@, r.err),
                                !.replays = Append(@, Outcome("Start", eventInfo,
                                                              r.calls, r.err))]
            /\ hist' = Failure(hist, r.err)
    /\ UNCHANGED last
    /\ Alone

\* the walk yields the empty string and ReSync returns
ReSyncDone ==
    /\ rs.pc = "walk"
    /\ Head(rs.walker) = EmptyStr
    /\ rs' = [rs EXCEPT !.pc = "done"]
    /\ last' = Outcome("ReSync", NoEvent, rs.calls, FALSE)
    /\ hist' = [hist EXCEPT !.phase = IF @ = "resync" THEN "recovered" ELSE @]
    /\ UNCHANGED <<putoPidMap, pidToPU, contextStore, cgroups>>
    /\ Alone

\* a process of the host exits and leaves its cgroup
ProcExit ==
    /\ Ready
    /\ \E name \in DOMAIN cgroups : \E n \in cgroups[name].procs :
         cgroups' = [cgroups EXCEPT ![name].procs = @ \ {n}]
    /\ hist' = Count(hist, FALSE)
    /\ UNCHANGED <<putoPidMap, pidToPU, contextStore, last, rs>>
    /\ Alone

\* the handler returns to the transport
Return ==
    /\ last # Returned
    /\ rs.pc \in {"idle", "done"}
    /\ last' = Returned
    /\ rs' = Idle
    /\ hist' = [hist EXCEPT !.phase = IF @ = "recovered" THEN "up" ELSE @,
                            !.pre = IF hist.phase = "recovered" THEN EmptyCache ELSE @,
                            !.st0 = EmptyCache,
                            !.cg0 = EmptyCache]
    /\ UNCHANGED <<putoPidMap, pidToPU, contextStore, cgroups>>
    /\ Alone

Next ==
    \/ StartEvent
    \/ StopEvent
    \/ ProcExit
    \/ Crash
    \/ ReSyncBegin
    \/ ReSyncNext
    \/ ReSyncReplay
    \/ ReSyncDone
    \/ Return

Spec == Init /\ [][Next]_vars

(***************************************************************************)
(* The context store on its own: callers store, get and remove records and *)
(* walk the store, in any order, while the goroutine of a walk is sending. *)
(***************************************************************************)
\* the ids the callers use: the processor stores a record under the unit id
\* and reads and removes it under "/" and the name the walk gave
StoreIds == Units \cup {<<"/">> \o u : u \in Units}

StoreRecords == {StoredContext(FormatUint(n), NoEvent) : n \in 1..MaxMark}

StoreContextFaults == {"none", "MkdirAll", "WriteFile", "Truncate"}

\* the result of a call of the store
StoreResult(op, id, rec, err, msg) ==
    [op |-> op, id |-> id, rec |-> rec, err |-> err, msg |-> msg]

NoResult == StoreResult("none", EmptyStr, NoFile, FALSE, "")

\* the history of the store:
\*   ref     the map the calls made so far describe: a store puts the record
\*           under the folder of the id, a remove takes the folder out
\*   bad     the folders a failure of the file system has touched since the
\*           last store or remove that met none
\*   was     what the store held under the folder of the last call before it
\*   same    the last call left the store as it was
\*   rest    the last call left the other folders as they were
\*   clean   the last call met no failure and its folder was not in bad
\*   sent    the values the goroutine of the walk has sent
StoreHist(ref, bad, was, same, rest, clean, sent) ==
    [ref |-> ref, bad |-> bad, was |-> was, same |-> same, rest |-> rest,
     clean |-> clean, sent |-> sent]

\* the store without a folder
Rest(st, folder) == [x \in DOMAIN st \ {folder} |-> st[x]]

\* what the store holds under a folder
Held(st, folder) == IF folder \in DOMAIN st THEN st[folder].kind ELSE "nothing"

StoreInit ==
    /\ putoPidMap = EmptyCache
    /\ pidToPU = EmptyCache
    /\ contextStore = EmptyCache
    /\ cgroups = EmptyCache
    /\ last = NoResult
    /\ rs = Idle
    /\ hist = StoreHist(EmptyCache, {}, "nothing", TRUE, TRUE, TRUE, << >>)
    /\ walk = NoWalk
    /\ mutex = Unlocked
    /\ thr = NoCalls

\* the processor takes no part
StoreOnly == UNCHANGED <<putoPidMap, pidToPU, cgroups, rs, mutex, thr>>

\* a caller stores a record
StoreContextCall ==
    /\ last = NoResult
    /\ \E id \in StoreIds, record \in StoreRecords, fault \in StoreContextFaults :
         LET r == StoreContext(contextStore, id, record, fault)
             folder == StoreKey(id)
         IN /\ fault # "none" => r.err
            /\ contextStore' = r.st
            /\ last' = StoreResult("StoreContext", id,
                                   IF fault = "none" THEN record ELSE NoFile,
                                   r.err, IF r.err THEN fault ELSE "")
            /\ hist' = IF fault = "none"
                       THEN [hist EXCEPT
                               !.ref = (folder :> record) @@ @,
                               !.clean = TRUE,
                               !.bad = @ \ {folder},
                               !.was = Held(contextStore, folder),
                               !.same = r.st = contextStore,
                               !.rest = Rest(r.st, folder) = Rest(contextStore, folder)]
                       ELSE [hist EXCEPT
                               !.clean = FALSE,
                               !.bad = @ \cup {folder},
                               !.was = Held(contextStore, folder),
                               !.same = r.st = contextStore,
                               !.rest = Rest(r.st, folder) = Rest(contextStore, folder)]
    /\ UNCHANGED walk
    /\ StoreOnly

\* a caller gets a record
GetContextInfoCall ==
    /\ last = NoResult
    /\ \E id \in StoreIds, fails \in BOOLEAN :
         LET r == GetContextInfo(contextStore, id, fails)
             folder == StoreKey(id)
         IN /\ fails => r.msg = FailedToRemove
            /\ contextStore' = r.st
            /\ last' = StoreResult("GetContextInfo", id, r.rec, r.err, r.msg)
            /\ hist' = [hist EXCEPT
                          !.clean = ~fails /\ folder \notin hist.bad,
                          !.was = Held(contextStore, folder),
                          !.same = r.st = contextStore,
                               !.rest = Rest(r.st, folder) = Rest(contextStore, folder)]
    /\ UNCHANGED walk
    /\ StoreOnly

\* a caller removes a record
RemoveContextCall ==
    /\ last = NoResult
    /\ \E id \in StoreIds, fails \in BOOLEAN :
         LET r == RemoveContext(contextStore, id, fails)
             folder == StoreKey(id)
         IN /\ fails => r.msg = RemoveAllError
            /\ contextStore' = r.st
            /\ last' = StoreResult("RemoveContext", id, NoFile, r.err, r.msg)
            /\ hist' = [hist EXCEPT
                          !.ref = [x \in DOMAIN @ \ {folder} |-> @[x]],
                          !.clean = ~fails /\ folder \notin hist.bad,
                          !.bad = IF fails THEN @ \cup {folder} ELSE @ \ {folder},
                          !.was = Held(contextStore, folder),
                          !.same = r.st = contextStore,
                               !.rest = Rest(r.st, folder) = Rest(contextStore, folder)]
    /\ UNCHANGED walk
    /\ StoreOnly

\* WalkStore is called: the directory is read and the goroutine is started,
\* or the directory cannot be read and the channel is returned closed
WalkStoreCall ==
    /\ last = NoResult
    /\ walk = NoWalk
    /\ \/ /\ walk' = [pc |-> "open", files |-> WalkStore(contextStore),
                       buf |-> << >>, got |-> << >>,
                       ids |-> DOMAIN contextStore, err |-> FALSE]
          /\ last' = StoreResult("WalkStore", EmptyStr, NoFile, FALSE, "")
       \/ /\ walk' = [pc |-> "closed", files |-> << >>,
                       buf |-> << >>, got |-> << >>,
                       ids |-> DOMAIN contextStore, err |-> TRUE]
          /\ last' = StoreResult("WalkStore", EmptyStr, NoFile, TRUE,
                                 "Store is empty")
    /\ hist' = [hist EXCEPT !.clean = TRUE, !.was = "nothing", !.same = TRUE,
                            !.rest = TRUE, !.sent = << >>]
    /\ UNCHANGED contextStore
    /\ StoreOnly

\* the goroutine sends the next value: the channel holds one value
WalkSend ==
    /\ last = NoResult
    /\ walk.pc = "open"
    /\ walk.files # << >>
    /\ Len(walk.buf) < 1
    /\ walk' = [walk EXCEPT !.buf = Append(@, Head(walk.files)),
                            !.files = Tail(@)]
    /\ hist' = [hist EXCEPT !.sent = Append(@, Head(walk.files))]
    /\ UNCHANGED <<contextStore, last>>
    /\ StoreOnly

\* the goroutine has sent all it had and closes the channel
WalkClose ==
    /\ last = NoResult
    /\ walk.pc = "open"
    /\ walk.files = << >>
    /\ walk' = [walk EXCEPT !.pc = "closed"]
    /\ UNCHANGED <<contextStore, last, hist>>
    /\ StoreOnly

\* the caller has read the empty string
WalkRead(w) == w.got # << >> /\ w.got[Len(w.got)] = EmptyStr

\* the caller receives from the channel, until it has read the empty string:
\* the value the channel holds, or the empty string when the channel is
\* closed and holds none
WalkReceive ==
    /\ last = NoResult
    /\ walk.pc \in {"open", "closed"}
    /\ ~WalkRead(walk)
    /\ \/ /\ walk.buf # << >>
          /\ walk' = [walk EXCEPT !.got = Append(@, Head(walk.buf)),
                                  !.buf = Tail(@)]
       \/ /\ walk.buf = << >>
          /\ walk.pc = "closed"
          /\ walk' = [walk EXCEPT !.got = Append(@, EmptyStr)]
    /\ UNCHANGED <<contextStore, last, hist>>
    /\ StoreOnly

\* the caller is done with the walk
WalkDone ==
    /\ last = NoResult
    /\ walk.pc = "closed"
    /\ WalkRead(walk)
    /\ walk' = NoWalk
    /\ UNCHANGED <<contextStore, last, hist>>
    /\ StoreOnly

\* the call returns to the caller
StoreReturn ==
    /\ last # NoResult
    /\ last' = NoResult
    /\ hist' = [hist EXCEPT !.was = "nothing", !.same = TRUE, !.rest = TRUE,
                            !.clean = TRUE]
    /\ UNCHANGED <<contextStore, walk>>
    /\ StoreOnly

StoreNext ==
    \/ StoreReturn
    \/ StoreContextCall
    \/ GetContextInfoCall
    \/ RemoveContextCall
    \/ WalkStoreCall
    \/ WalkSend
    \/ WalkClose
    \/ WalkReceive
    \/ WalkDone

StoreSpec == StoreInit /\ [][StoreNext]_vars

(***************************************************************************)
(* The processor called from several goroutines: a call of Start or Stop   *)
(* goes through the lines of the handler one group at a time, and the      *)
(* other goroutines run between the groups.  No collaborator fails.        *)
(***************************************************************************)
\* calls made in one behaviour
MaxCalls == 3

\* a goroutine in a call: the line it is at, the event, the runtime the
\* extractor returns and the contextID the handler works with
InCall(pc, op, ev, ri, contextID) ==
    [pc |-> pc, op |-> op, ev |-> ev, ri |-> ri, contextID |-> contextID]

\* the history of the calls: how many were made, and the calls in the order
\* in which they took the lock
NoCallHist == [calls |-> 0, serial |-> << >>]

ConcInit ==
    /\ putoPidMap = EmptyCache
    /\ pidToPU = EmptyCache
    /\ contextStore = EmptyCache
    /\ cgroups = EmptyCache
    /\ last = Returned
    /\ rs = Idle
    /\ hist = NoCallHist
    /\ walk = NoWalk
    /\ mutex = Unlocked
    /\ thr = NoCalls

\* (a lock that is given to whoever asks)
lockIgnored(m) == TRUE

\* sync.Mutex.Lock returns when no goroutine holds the lock
lockFree(m) == m = Unlocked

\* the lines of Start and Stop at which a goroutine waits for the lock
Waiting == {"Start:95", "Stop:174"}

\* a unit identifier that regStart does not match, and the Start events the
\* transport can deliver with it
BadUnit == <<"-", "u">>

MalformedStarts == {EventInfo(BadUnit, PidStr(1), EmptyStr)}

\* the events ReSync replays: the stored event of a record with a process id
ReplayEvents ==
    {ReplayEvent(contextStore[k].EventInfo, pid) :
        k \in {x \in DOMAIN contextStore : contextStore[x].kind = "record"},
        pid \in NumPids}

\* Start is called, by the transport or by ReSync for a record of the store
CallStart(t) ==
    /\ thr[t].pc = "idle"
    /\ hist.calls < MaxCalls
    /\ \E eventInfo \in StartEvents \cup MalformedStarts \cup ReplayEvents,
          runtimeInfo \in RuntimeInfos :
         thr' = [thr EXCEPT ![t] = InCall("Start:95", "Start", eventInfo,
                                         runtimeInfo, eventInfo.PUID)]
    /\ hist' = [hist EXCEPT !.calls = @ + 1]
    /\ UNCHANGED <<putoPidMap, pidToPU, contextStore, cgroups, last, rs, walk, mutex>>

\* Stop is called: lines 165-173 run without the lock
CallStop(t) ==
    /\ thr[t].pc = "idle"
    /\ hist.calls < MaxCalls
    /\ \E eventInfo \in StopEvents :
         LET gen == generateContextID(eventInfo) IN
         thr' = IF gen.err \/ gen.contextID = triremeBaseCgroup
                THEN thr
                ELSE [thr EXCEPT ![t] = InCall("Stop:174", "Stop", eventInfo,
                                               PURuntime(EmptyStr), gen.contextID)]
    /\ hist' = [hist EXCEPT !.calls = @ + 1]
    /\ UNCHANGED <<putoPidMap, pidToPU, contextStore, cgroups, last, rs, walk, mutex>>

\* s.Lock()
Lock(t) ==
    /\ thr[t].pc \in Waiting
    /\ lockFree(mutex)
    /\ mutex' = t
    /\ thr' = [thr EXCEPT ![t].pc = IF thr[t].op = "Start" THEN "Start:98"
                                    ELSE "Stop:177"]
    /\ hist' = [hist EXCEPT !.serial = Append(@, [op |-> thr[t].op,
                                                  ev |-> thr[t].ev,
                                                  ri |-> thr[t].ri])]
    /\ UNCHANGED <<putoPidMap, pidToPU, contextStore, cgroups, last, rs, walk>>

\* Start, line 98: the entry of the unit is looked up
StartGet(t) ==
    /\ thr[t].pc = "Start:98"
    /\ thr' = [thr EXCEPT ![t].pc = IF thr[t].contextID \in DOMAIN putoPidMap
                                    THEN "Start:152" ELSE "Start:101"]
    /\ UNCHANGED <<putoPidMap, pidToPU, contextStore, cgroups, last, rs, hist,
                   walk, mutex>>

\* Start, lines 101-121: the extractor, the policy handler and the classifier
StartActivate(t) ==
    /\ thr[t].pc = "Start:101"
    /\ LET svc == processLinuxServiceStart(cgroups, thr[t].ev, thr[t].ri, {})
       IN /\ cgroups' = svc.cg
          /\ thr' = [thr EXCEPT ![t].pc = IF svc.err THEN "return" ELSE "Start:123"]
    /\ UNCHANGED <<putoPidMap, pidToPU, contextStore, last, rs, hist, walk, mutex>>

\* Start, lines 123-150: the entry, the index and the record
StartRegister(t) ==
    /\ thr[t].pc = "Start:123"
    /\ LET contextID == thr[t].contextID
           eventInfo == thr[t].ev
           runtimeInfo == thr[t].ri
           entry == puToPidEntry({eventInfo.PID}, runtimeInfo,
                                 publishedContextID(contextID, runtimeInfo))
       IN /\ putoPidMap' = CacheAdd(putoPidMap, contextID, entry)
          /\ pidToPU' = CacheAdd(pidToPU, eventInfo.PID, contextID)
          /\ contextStore' =
                StoreContext(contextStore, contextID,
                             StoredContext(runtimeInfo.CgroupMark, eventInfo),
                             "none").st
    /\ thr' = [thr EXCEPT ![t].pc = "return"]
    /\ UNCHANGED <<cgroups, last, rs, hist, walk, mutex>>

\* Start, lines 152-158: the process joins the unit that has an entry (the
\* entry line 98 found; one that was taken out of the cache since is lost)
StartJoin(t) ==
    /\ thr[t].pc = "Start:152"
    /\ LET contextID == thr[t].contextID
           eventInfo == thr[t].ev
           info == IF contextID \in DOMAIN putoPidMap
                   THEN putoPidMap[contextID].Info ELSE thr[t].ri
           svc == processLinuxServiceStart(cgroups, eventInfo, info, {})
       IN /\ putoPidMap' = IF contextID \in DOMAIN putoPidMap
                           THEN [putoPidMap EXCEPT ![contextID].pidlist =
                                    addPid(@, eventInfo.PID)]
                           ELSE putoPidMap
          /\ pidToPU' = indexPid(pidToPU, eventInfo.PID, eventInfo.PUID)
          /\ cgroups' = svc.cg
    /\ thr' = [thr EXCEPT ![t].pc = "return"]
    /\ UNCHANGED <<contextStore, last, rs, hist, walk, mutex>>

\* Stop, lines 177-183: the unit of the process, and its entry
StopGet(t) ==
    /\ thr[t].pc = "Stop:177"
    /\ LET stoppedpid == TrimLeftSlash(thr[t].contextID)
           contextID == IF stoppedpid \in DOMAIN pidToPU
                        THEN pidToPU[stoppedpid] ELSE thr[t].contextID
       IN thr' = [thr EXCEPT ![t].contextID = contextID,
                             ![t].pc = IF contextID \in DOMAIN putoPidMap
                                       THEN "Stop:185" ELSE "return"]
    /\ UNCHANGED <<putoPidMap, pidToPU, contextStore, cgroups, last, rs, hist,
                   walk, mutex>>

\* Stop, lines 185-196: the process leaves the entry and the index; when
\* others are left its cgroup is deleted and Stop returns
StopForget(t) ==
    /\ thr[t].pc = "Stop:185"
    /\ LET contextID == thr[t].contextID
           stoppedpid == TrimLeftSlash(generateContextID(thr[t].ev).contextID)
           pidlist == IF contextID \in DOMAIN putoPidMap
                      THEN deletePid(putoPidMap[contextID].pidlist, stoppedpid)
                      ELSE {}
       IN /\ putoPidMap' = IF contextID \in DOMAIN putoPidMap
                           THEN [putoPidMap EXCEPT ![contextID].pidlist = pidlist]
                           ELSE putoPidMap
          /\ pidToPU' = removePid(pidToPU, stoppedpid)
          /\ cgroups' = IF othersLeft(pidlist)
                        THEN DeleteCgroup(cgroups, stoppedpid, FALSE)
                        ELSE cgroups
          /\ thr' = [thr EXCEPT ![t].pc = IF othersLeft(pidlist)
                                          THEN "return" ELSE "Stop:198"]
    /\ UNCHANGED <<contextStore, last, rs, hist, walk, mutex>>

\* Stop, lines 198-223: the last member has left, the unit is torn down
StopTeardown(t) ==
    /\ thr[t].pc = "Stop:198"
    /\ LET contextID == thr[t].contextID
           stoppedpid == TrimLeftSlash(generateContextID(thr[t].ev).contextID)
       IN /\ putoPidMap' = CacheRemove(putoPidMap, contextID)
          /\ contextStore' = RemoveContext(contextStore, contextID, FALSE).st
          /\ cgroups' = DeleteCgroup(cgroups, stoppedpid, FALSE)
    /\ thr' = [thr EXCEPT ![t].pc = "return"]
    /\ UNCHANGED <<pidToPU, last, rs, hist, walk, mutex>>

\* UIDProcessor.Create
Create(eventInfo, fails) ==
    [calls |-> <<Call("HandlePUEvent", eventInfo.PUID, "EventCreate", ~fails)>>,
     err |-> fails]

\* UIDProcessor.Destroy
Destroy(eventInfo) == [calls |-> << >>, err |-> FALSE]

\* (a Pause that forwards whatever the event names)
PauseUnchecked(eventInfo, fails) ==
    [calls |-> <<Call("HandlePUEvent", generateContextID(eventInfo).contextID,
                      "EventPause", ~fails)>>,
     err |-> fails]

\* UIDProcessor.Pause
Pause(eventInfo, fails) ==
    LET gen == generateContextID(eventInfo) IN
    IF gen.err
    THEN [calls |-> << >>, err |-> TRUE]
    ELSE [calls |-> <<Call("HandlePUEvent", gen.contextID, "EventPause", ~fails)>>,
          err |-> fails]

\* the events Create is called with
CreateEvents == {EventInfo(u, EmptyStr, EmptyStr) : u \in Units}

\* a call that takes no lock: it runs in one step beside the other goroutines
Notice(t, op, eventInfo, r, fails) ==
    /\ thr[t].pc = "idle"
    /\ hist.calls < MaxCalls
    /\ last = Returned
    /\ fails => FailedCalls(r.calls) # {}
    /\ last' = Outcome(op, eventInfo, r.calls, r.err)
    /\ hist' = [hist EXCEPT !.calls = @ + 1]
    /\ UNCHANGED <<putoPidMap, pidToPU, contextStore, cgroups, rs, walk, mutex, thr>>

CallCreate(t) ==
    \E eventInfo \in CreateEvents, fails \in BOOLEAN :
        Notice(t, "Create", eventInfo, Create(eventInfo, fails), fails)

CallPause(t) ==
    \E eventInfo \in StopEvents, fails \in BOOLEAN :
        Notice(t, "Pause", eventInfo, Pause(eventInfo, fails), fails)

CallDestroy(t) ==
    \E eventInfo \in StopEvents :
        Notice(t, "Destroy", eventInfo, Destroy(eventInfo), FALSE)

\* the call returns to the transport
NoticeReturn ==
    /\ last # Returned
    /\ last' = Returned
    /\ UNCHANGED <<putoPidMap, pidToPU, contextStore, cgroups, rs, hist, walk,
                   mutex, thr>>

\* the handler returns: defer s.Unlock()
Unlock(t) ==
    /\ thr[t].pc = "return"
    /\ mutex' = Unlocked
    /\ thr' = [thr EXCEPT ![t] = [pc |-> "idle"]]
    /\ UNCHANGED <<putoPidMap, pidToPU, contextStore, cgroups, last, rs, hist, walk>>

ConcNext ==
    \/ \E t \in Threads : CallStart(t)
    \/ \E t \in Threads : CallStop(t)
    \/ \E t \in Threads : Lock(t)
    \/ \E t \in Threads : StartGet(t)
    \/ \E t \in Threads : StartActivate(t)
    \/ \E t \in Threads : StartRegister(t)
    \/ \E t \in Threads : StartJoin(t)
    \/ \E t \in Threads : StopGet(t)
    \/ \E t \in Threads : StopForget(t)
    \/ \E t \in Threads : StopTeardown(t)
    \/ \E t \in Threads : Unlock(t)
    \/ \E t \in Threads : CallCreate(t)
    \/ \E t \in Threads : CallPause(t)
    \/ \E t \in Threads : CallDestroy(t)
    \/ NoticeReturn

ConcSpec == ConcInit /\ [][ConcNext]_vars

(***************************************************************************)
(* ReSync as a goroutine of its own, next to a goroutine of the transport: *)
(* the walk is the channel of WalkStore with the goroutine that fills it,  *)
(* and a replay is a call of Start that takes the lock like any other.     *)
(* ReSync is called once.  Every goroutine that can run does run in the    *)
(* end: the calls made to the collaborators return.                        *)
(***************************************************************************)
\* the goroutine ReSync runs in, and the one of the transport
Syncer == MaxThreads

Transport == Threads \ {Syncer}

\* contextChannel := make(chan string, 1)
ChanCap == 1

\* the calls the transport makes while ReSync is followed
MaxSyncCalls == 2

\* the events of the transport: Start for a process of a unit, with a mark
\* the classifier takes, and the release notification of a process
SyncStarts == {EventInfo(u, p, EmptyStr) : u \in Units, p \in NumPids}

SyncInfos == {PURuntime(FormatUint(n)) : n \in 1..MaxMark}

SyncStops == {EventInfo(EmptyStr, EmptyStr, CgroupPath(p)) : p \in NumPids}

\* Start is called by the transport
SyncStart(t) ==
    /\ thr[t].pc = "idle"
    /\ hist.calls < MaxSyncCalls
    /\ \E eventInfo \in SyncStarts, runtimeInfo \in SyncInfos :
         thr' = [thr EXCEPT ![t] = InCall("Start:95", "Start", eventInfo,
                                         runtimeInfo, eventInfo.PUID)]
    /\ hist' = [hist EXCEPT !.calls = @ + 1]
    /\ UNCHANGED <<putoPidMap, pidToPU, contextStore, cgroups, last, rs, walk, mutex>>

\* Stop is called by the transport
SyncStop(t) ==
    /\ thr[t].pc = "idle"
    /\ hist.calls < MaxSyncCalls
    /\ \E eventInfo \in SyncStops :
         thr' = [thr EXCEPT ![t] = InCall("Stop:174", "Stop", eventInfo,
                                         PURuntime(EmptyStr),
                                         generateContextID(eventInfo).contextID)]
    /\ hist' = [hist EXCEPT !.calls = @ + 1]
    /\ UNCHANGED <<putoPidMap, pidToPU, contextStore, cgroups, last, rs, walk, mutex>>

\* ReSync, line 291: the loop ends at the empty string
walkEndedAtFirst(contextID) == TRUE

walkEnded(contextID) == contextID = EmptyStr

\* ReSync in progress:
\*   pc       "walk" at the receive of line 290, "replay" in the loop of
\*            line 309, "called" while the Start of line 311 runs, "done"
\*            when ReSync has returned
\*   got      the values received from the walk
\*   waited   a replay was called while another goroutine held the lock
SyncRun(pc, m2p, err) ==
    [pc |-> pc, marktoPID |-> m2p, eventInfo |-> NoEvent, pids |-> << >>,
     got |-> << >>, replays |-> 0, waited |-> FALSE, err |-> err]

\* the channel of WalkStore: files are the names the goroutine has yet to
\* send, buf the values the channel holds
Chan(pc, files) == [pc |-> pc, files |-> files, buf |-> << >>]

\* ReSync is called, lines 265-288: WalkStore returns the channel, closed
\* when the directory cannot be read, and the cgroups are swept
SyncCall ==
    /\ rs.pc = "idle"
    /\ walk = NoWalk
    /\ \/ /\ walk' = Chan("closed", << >>)
          /\ rs' = SyncRun("done", EmptyCache, TRUE)
          /\ UNCHANGED cgroups
       \/ \E failing \in SUBSET EmptyCgroups(cgroups) :
            /\ walk' = Chan("open", WalkStore(contextStore))
            /\ cgroups' = SweepCgroups(cgroups, failing)
            /\ rs' = SyncRun("walk", marktoPID(cgroups), FALSE)
    /\ UNCHANGED <<putoPidMap, pidToPU, contextStore, last, hist, mutex, thr>>

\* the goroutine of WalkStore sends the next name, or the empty string
SyncSend ==
    /\ walk.pc = "open"
    /\ walk.files # << >>
    /\ Len(walk.buf) < ChanCap
    /\ walk' = [walk EXCEPT !.buf = Append(@, Head(walk.files)),
                            !.files = Tail(@)]
    /\ UNCHANGED <<putoPidMap, pidToPU, contextStore, cgroups, last, rs, hist,
                   mutex, thr>>

\* the goroutine of WalkStore closes the channel and ends
SyncClose ==
    /\ walk.pc = "open"
    /\ walk.files = << >>
    /\ walk' = [walk EXCEPT !.pc = "closed"]
    /\ UNCHANGED <<putoPidMap, pidToPU, contextStore, cgroups, last, rs, hist,
                   mutex, thr>>

\* ReSync, lines 290-308: a value is received from the walk (the empty
\* string when the channel is closed and holds nothing); the loop ends at
\* the empty string, and the record of any other value is read
SyncReceive ==
    /\ rs.pc = "walk"
    /\ \E contextID \in {Head(walk.buf) : x \in {1} \cap {Len(walk.buf)}}
                        \cup {EmptyStr : x \in {"closed"} \cap
                                 (IF walk.buf = << >> THEN {walk.pc} ELSE {})} :
       \E F \in {{}, {"RemoveAll"}} :
         LET r == ReSyncRecord(contextStore, rs.marktoPID, contextID, F) IN
         /\ walk' = [walk EXCEPT !.buf = IF @ = << >> THEN @ ELSE Tail(@)]
         /\ IF walkEnded(contextID)
            THEN /\ F = {}
                 /\ rs' = [rs EXCEPT !.pc = "done", !.got = Append(@, contextID)]
                 /\ UNCHANGED contextStore
            ELSE /\ Hit(F, r.calls)
                 /\ contextStore' = r.st
                 /\ rs' = [rs EXCEPT !.pc = IF r.pids = << >> THEN "walk"
                                            ELSE "replay",
                                     !.eventInfo = IF r.pids = << >> THEN NoEvent
                                                   ELSE r.rec.EventInfo,
                                     !.pids = r.pids,
                                     !.got = Append(@, contextID)]
    /\ UNCHANGED <<putoPidMap, pidToPU, cgroups, last, hist, mutex, thr>>

\* ReSync, lines 309-311: Start is called for the next live pid
SyncReplay ==
    /\ rs.pc = "replay"
    /\ thr[Syncer].pc = "idle"
    /\ \E runtimeInfo \in SyncInfos :
         LET eventInfo == ReplayEvent(rs.eventInfo, Head(rs.pids)) IN
         thr' = [thr EXCEPT ![Syncer] = InCall("Start:95", "Start", eventInfo,
                                              runtimeInfo, eventInfo.PUID)]
    /\ rs' = [rs EXCEPT !.pc = "called", !.pids = Tail(@), !.replays = @ + 1,
                        !.waited = @ \/ mutex # Unlocked]
    /\ UNCHANGED <<putoPidMap, pidToPU, contextStore, cgroups, last, hist, walk,
                   mutex>>

\* ReSync, lines 311-315: the Start has returned, whatever its result
SyncResume ==
    /\ rs.pc = "called"
    /\ thr[Syncer].pc = "idle"
    /\ rs' = [rs EXCEPT !.pc = IF rs.pids = << >> THEN "walk" ELSE "replay"]
    /\ UNCHANGED <<putoPidMap, pidToPU, contextStore, cgroups, last, hist, walk,
                   mutex, thr>>

\* a step of a call of Start or Stop that goroutine t is in
InHandler(t) ==
    \/ Lock(t)
    \/ StartGet(t)
    \/ StartActivate(t)
    \/ StartRegister(t)
    \/ StartJoin(t)
    \/ StopGet(t)
    \/ StopForget(t)
    \/ StopTeardown(t)
    \/ Unlock(t)

SyncNext ==
    \/ \E t \in Transport : SyncStart(t)
    \/ \E t \in Transport : SyncStop(t)
    \/ \E t \in Threads : InHandler(t)
    \/ SyncCall
    \/ SyncSend
    \/ SyncClose
    \/ SyncReceive
    \/ SyncReplay
    \/ SyncResume

\* the Go scheduler runs every goroutine that can run
SyncFair ==
    /\ WF_vars(SyncReceive \/ SyncReplay \/ SyncResume)
    /\ WF_vars(SyncSend \/ SyncClose)
    /\ \A t \in Threads : WF_vars(InHandler(t))

SyncSpec == ConcInit /\ [][SyncNext]_vars /\ SyncFair

(***************************************************************************)
(* What the properties read off a step.                                    *)
(***************************************************************************)
\* the calls made to the policy handler
HandlerCalls(calls) ==
    SelectSeq(calls, LAMBDA c : c.fn \in {"HandlePUEvent", "SetPURuntime"})

\* a call without its result
Sig(c) == <<c.fn, c.id, c.arg>>

Sigs(calls) == [i \in 1..Len(calls) |-> Sig(calls[i])]

\* the store holds a record for the unit
HasRecord(st, unit) ==
    StoreKey(unit) \in DOMAIN st /\ st[StoreKey(unit)].kind = "record"

\* the units the process is a member of
UnitsOf(puto, pid) == {u \in DOMAIN puto : pid \in puto[u].pidlist}

\* the step is a call of Stop made by the transport
StopStep == last = Returned /\ last'.op = "Stop"

\* the step is a call of Start, made by the transport or by ReSync
StartStep ==
    \/ last = Returned /\ last'.op = "Start"
    \/ rs.pc = "replay" /\ rs'.pc # "idle"

\* the record of the Start call of a step that is one
StartOf(l, r) == IF l.op = "Start" THEN l ELSE r.replays[Len(r.replays)]

(***************************************************************************)
(* C1: every process id of the Process->Unit Index maps to a unit whose    *)
(* Membership Entry exists and holds it, and no other Membership Entry     *)
(* holds it.                                                               *)
(***************************************************************************)
C1_IndexedPidInItsUnitOnly ==
    \A pid \in DOMAIN pidToPU : UnitsOf(putoPidMap, pid) = {pidToPU[pid]}

(***************************************************************************)
(* C2: the policy handler is sent Stop and Destroy only by the Stop that   *)
(* takes the last member out of a unit: that Stop sends one Stop and then  *)
(* one Destroy with the unit's published identifier and the entry is gone; *)
(* a Stop that leaves a member makes no policy handler call; no Start      *)
(* sends Stop or Destroy and no entry disappears but in such a Stop (or    *)
(* with the controller's memory).                                          *)
(***************************************************************************)
C2_Teardown(unit) ==
    <<<<"HandlePUEvent", putoPidMap[unit].publishedContextID, "EventStop">>,
      <<"HandlePUEvent", putoPidMap[unit].publishedContextID, "EventDestroy">>>>

C2_Step ==
    /\ StopStep =>
         LET stopped == StoppedProcess(last'.ev)
             touched == {u \in DOMAIN putoPidMap :
                           u \notin DOMAIN putoPidMap'
                           \/ putoPidMap'[u] # putoPidMap[u]}
             sent == Sigs(HandlerCalls(last'.calls))
         IN /\ Cardinality(touched) <= 1
            /\ touched = {} => sent = << >>
            /\ \A u \in touched :
                 IF putoPidMap[u].pidlist \ {stopped} = {}
                 THEN sent = C2_Teardown(u) /\ u \notin DOMAIN putoPidMap'
                 ELSE /\ sent = << >>
                      /\ u \in DOMAIN putoPidMap'
                      /\ putoPidMap'[u].pidlist = putoPidMap[u].pidlist \ {stopped}
    /\ StartStep =>
         \A i \in 1..Len(StartOf(last', rs').calls) :
            StartOf(last', rs').calls[i].arg \notin {"EventStop", "EventDestroy"}
    /\ (DOMAIN putoPidMap \ DOMAIN putoPidMap' # {}) =>
         (StopStep \/ putoPidMap' = EmptyCache)

C2_StopDestroyOnLastStopOnly == [][C2_Step]_vars

\* a Stop has taken the last member out of a unit while another unit stays
C2_Witness ==
    /\ last.op = "Stop"
    /\ Len(HandlerCalls(last.calls)) = 2
    /\ putoPidMap # EmptyCache

(***************************************************************************)
(* C3: as long as every event was a Start that succeeded, for a process    *)
(* tracked by no other unit, or a Stop, the member set of each unit is the *)
(* set of the processes started in it and not stopped since, a unit has an *)
(* entry exactly when that set is not empty, and the index maps exactly    *)
(* those processes to their units.                                         *)
(***************************************************************************)
C3_Started(unit) == {p \in DOMAIN hist.track : hist.track[p] = unit}

C3_MembersAreStartedNotStopped ==
    hist.clean =>
        /\ pidToPU = hist.track
        /\ DOMAIN putoPidMap = {u \in Units : C3_Started(u) # {}}
        /\ \A u \in DOMAIN putoPidMap : putoPidMap[u].pidlist = C3_Started(u)

\* two processes were started in a unit and one of them was stopped
C3_Witness ==
    /\ hist.clean
    /\ last.op = "Stop"
    /\ Sigs(last.calls) = <<<<"DeleteCgroup", StoppedProcess(last.ev), "">>>>
    /\ \E u \in DOMAIN putoPidMap :
         /\ Cardinality(putoPidMap[u].pidlist) = 1
         /\ StoppedProcess(last.ev) \notin putoPidMap[u].pidlist
         /\ HasRecord(contextStore, u)

(***************************************************************************)
(* C4: when nothing has failed, the Start of a process for an Unseen unit  *)
(* followed at once by the Stop of that process leaves no Membership       *)
(* Entry and no Context Record of the unit and no index entry of the       *)
(* process.                                                                *)
(***************************************************************************)
C4_StartThenStopLeavesNothing ==
    (hist.closed # << >> /\ hist.faults = 0) =>
        /\ hist.closed[1] \notin DOMAIN putoPidMap
        /\ hist.closed[2] \notin DOMAIN pidToPU
        /\ ~HasRecord(contextStore, hist.closed[1])

(***************************************************************************)
(* C5: a Start for an Unseen unit that returns an error leaves the unit    *)
(* without Membership Entry, adds no index entry for the process, and has  *)
(* made no call after the one that failed but the deletion of the cgroup.  *)
(***************************************************************************)
C5_Step ==
    (StartStep /\ StartOf(last', rs').err
       /\ StartOf(last', rs').ev.PUID \notin DOMAIN putoPidMap) =>
        LET o == StartOf(last', rs') IN
        /\ o.ev.PUID \notin DOMAIN putoPidMap'
        /\ o.ev.PID \in DOMAIN pidToPU' =>
             (o.ev.PID \in DOMAIN pidToPU /\ pidToPU'[o.ev.PID] = pidToPU[o.ev.PID])
        /\ \A i \in FailedCalls(o.calls) : \A j \in (i+1)..Len(o.calls) :
             o.calls[j].fn = "DeleteCgroup"

C5_FailedFirstStartAborts == [][C5_Step]_vars

(***************************************************************************)
(* C6: when the classifier binding of a Start fails after Creategroup      *)
(* succeeded, and no deletion of a cgroup was refused, the cgroup of the   *)
(* triggering process does not exist when Start returns.                   *)
(***************************************************************************)
C6_BindingFailed(o) ==
    /\ o.err
    /\ \E i \in 1..Len(o.calls) : o.calls[i].fn = "Creategroup" /\ o.calls[i].ok
    /\ \A i \in 1..Len(o.calls) : o.calls[i].fn # "StoreContext"
    /\ \A i \in 1..Len(o.calls) : o.calls[i].fn = "DeleteCgroup" => o.calls[i].ok

C6_Step ==
    (StartStep /\ C6_BindingFailed(StartOf(last', rs'))) =>
        StartOf(last', rs').ev.PID \notin DOMAIN cgroups'

C6_FailedBindingLeavesNoCgroup == [][C6_Step]_vars

(***************************************************************************)
(* What the properties read off a ReSync that has returned: hist.st0 and   *)
(* hist.cg0 are the context store and the cgroups it was called with.      *)
(***************************************************************************)
\* the ids of the records ReSync can read
Readable(st) == {k \in DOMAIN st : st[k].kind = "record"}

\* the live processes in the cgroups that report the mark
LivePids(cg, markval) ==
    {PidStr(n) : n \in UNION {cg[c].procs :
                    c \in {x \in DOMAIN cg : FormatUint(cg[x].mark) = markval}}}

\* the live processes that carry the mark of the record k
Carrying(k) == LivePids(hist.cg0, hist.st0[k].MarkVal)

\* the replays ReSync made of the event, with any process id
ReplaysOf(eventInfo) ==
    {i \in 1..Len(rs.replays) :
        [rs.replays[i].ev EXCEPT !.PID = EmptyStr] = [eventInfo EXCEPT !.PID = EmptyStr]}

\* the calls ReSync made to remove the record k
Removals(k) ==
    {i \in 1..Len(rs.calls) :
        rs.calls[i].fn = "RemoveContext" /\ rs.calls[i].id = <<"/">> \o k}

\* the restart has been recovered from: ReSync has returned and neither it nor
\* a replay met a failure
Recovered == rs.pc = "done" /\ hist.phase = "recovered"

(***************************************************************************)
(* C7 as stated, where no call has failed before the restart either:       *)
(* after the recovery every unit that was Active has an entry whose member *)
(* set is exactly its members of before that are alive in a cgroup         *)
(* carrying the stored mark, each of them indexed; a unit with no such     *)
(* process has neither an entry nor a Context Record.                      *)
(***************************************************************************)
C7_Surviving(u) ==
    IF u \in Readable(hist.st0) THEN hist.pre[u] \cap Carrying(u) ELSE {}

C7_RebuiltFromFormerMembers ==
    (Recovered /\ hist.faults = 0) =>
        \A u \in DOMAIN hist.pre :
            IF C7_Surviving(u) # {}
            THEN /\ u \in DOMAIN putoPidMap
                 /\ putoPidMap[u].pidlist = C7_Surviving(u)
                 /\ C7_Surviving(u) \subseteq DOMAIN pidToPU
            ELSE /\ u \notin DOMAIN putoPidMap
                 /\ ~HasRecord(contextStore, u)

(***************************************************************************)
(* C7 amended: after the recovery a unit has an entry exactly when it had  *)
(* a readable Context Record whose mark a live process carries; its member *)
(* set is the set of all the live processes in cgroups carrying the stored *)
(* mark, members before the restart or not, each of them indexed under a   *)
(* unit that holds it, and its record is kept; every other unit has        *)
(* neither an entry nor a Context Record.                                  *)
(***************************************************************************)
C7_RebuiltFromLiveMarks ==
    Recovered =>
        \A u \in Units \cup DOMAIN hist.pre \cup DOMAIN hist.st0 \cup DOMAIN putoPidMap :
            IF u \in Readable(hist.st0) /\ Carrying(u) # {}
            THEN /\ u \in DOMAIN putoPidMap
                 /\ putoPidMap[u].pidlist = Carrying(u)
                 /\ \A p \in Carrying(u) :
                      p \in DOMAIN pidToPU /\ p \in putoPidMap[pidToPU[p]].pidlist
                 /\ HasRecord(contextStore, u)
            ELSE /\ u \notin DOMAIN putoPidMap
                 /\ ~HasRecord(contextStore, u)

\* a unit with two members was recovered, and a process that was not a member
\* of a unit before the restart is one after it
C7_Witness ==
    /\ Recovered
    /\ \E u \in DOMAIN hist.pre :
         u \in DOMAIN putoPidMap /\ Cardinality(putoPidMap[u].pidlist) = 2
    /\ \E u \in DOMAIN hist.pre :
         u \in DOMAIN putoPidMap /\ putoPidMap[u].pidlist # hist.pre[u]

(***************************************************************************)
(* C8: when ReSync has returned it has replayed Start exactly once for     *)
(* each readable record and each live process carrying the record's mark,  *)
(* with the stored event in which only the process id is replaced by that  *)
(* of the live process, and has made no other replay: none for a process   *)
(* whose cgroup reports the mark of no readable record.                    *)
(***************************************************************************)
C8_OneReplayPerLivePid ==
    rs.pc = "done" =>
        /\ \A k \in Readable(hist.st0) : \A p \in Carrying(k) :
             Cardinality({i \in 1..Len(rs.replays) :
                 rs.replays[i].ev = [hist.st0[k].EventInfo EXCEPT !.PID = p]}) = 1
        /\ \A i \in 1..Len(rs.replays) :
             \E k \in Readable(hist.st0) :
                /\ rs.replays[i].ev.PID \in Carrying(k)
                /\ rs.replays[i].ev = [hist.st0[k].EventInfo EXCEPT
                                          !.PID = rs.replays[i].ev.PID]
        /\ \A k \in Readable(hist.st0) :
             Cardinality(ReplaysOf(hist.st0[k].EventInfo)) = Cardinality(Carrying(k))

\* a record whose mark two live processes carry was replayed twice, for
\* process ids of which one is not the one of the stored event
C8_Witness ==
    /\ rs.pc = "done"
    /\ \E k \in Readable(hist.st0) :
         /\ Cardinality(Carrying(k)) = 2
         /\ Cardinality(ReplaysOf(hist.st0[k].EventInfo)) = 2
         /\ \E i \in ReplaysOf(hist.st0[k].EventInfo) :
              rs.replays[i].ev.PID # hist.st0[k].EventInfo.PID

(***************************************************************************)
(* C9: when ReSync has returned, for each readable record whose mark no    *)
(* live process carried it has asked the store once to remove the record,  *)
(* the record is gone unless the store refused, and no Start was replayed  *)
(* for it; each readable record whose mark a live process carried is still *)
(* in the store and no removal was asked for it (it is still readable      *)
(* unless the store failed while a replay was writing it again).           *)
(***************************************************************************)
\* the store failed to write the record during a replay of the event
C9_WriteFailed(eventInfo) ==
    \E i \in ReplaysOf(eventInfo) : \E j \in 1..Len(rs.replays[i].calls) :
        rs.replays[i].calls[j].fn = "StoreContext" /\ ~rs.replays[i].calls[j].ok

C9_DeadRecordsRemovedLiveKept ==
    rs.pc = "done" =>
        \A k \in Readable(hist.st0) :
            IF Carrying(k) = {}
            THEN /\ Cardinality(Removals(k)) = 1
                 /\ \A i \in Removals(k) :
                      rs.calls[i].ok => k \notin DOMAIN contextStore
                 /\ ReplaysOf(hist.st0[k].EventInfo) = {}
            ELSE /\ k \in DOMAIN contextStore
                 /\ HasRecord(contextStore, k) \/ C9_WriteFailed(hist.st0[k].EventInfo)
                 /\ Removals(k) = {}

\* ReSync has removed a record whose mark was dead and kept one whose mark
\* was live
C9_Witness ==
    /\ rs.pc = "done"
    /\ \E k \in Readable(hist.st0) :
         Carrying(k) = {} /\ k \notin DOMAIN contextStore
    /\ \E k \in Readable(hist.st0) :
         Carrying(k) # {} /\ HasRecord(contextStore, k)

(***************************************************************************)
(* C10: the sweep at the start of ReSync asks once for the deletion of     *)
(* each cgroup without a live process and of no other, the cgroups it      *)
(* deletes are gone unless the classifier refused, and every cgroup with a *)
(* live process is left as it was; a ReSync called with an empty context   *)
(* store and no cgroup without a live process returns with the cgroups as  *)
(* they were, having replayed no Start, called the policy handler never    *)
(* and asked for no deletion.                                              *)
(***************************************************************************)
C10_Deletions(calls) == {i \in 1..Len(calls) : calls[i].fn = "DeleteCgroup"}

C10_Step ==
    /\ (rs.pc = "idle" /\ rs'.pc = "walk") =>
         LET empties == {c \in DOMAIN cgroups : cgroups[c].procs = {}}
             dels == C10_Deletions(rs'.calls)
         IN /\ {rs'.calls[i].id : i \in dels} = empties
            /\ Cardinality(dels) = Cardinality(empties)
            /\ \A i \in dels : rs'.calls[i].ok => rs'.calls[i].id \notin DOMAIN cgroups'
            /\ DOMAIN cgroups' \subseteq DOMAIN cgroups
            /\ \A c \in DOMAIN cgroups \ empties :
                 c \in DOMAIN cgroups' /\ cgroups'[c] = cgroups[c]
    /\ (rs.pc = "walk" /\ rs'.pc = "done"
          /\ hist.st0 = EmptyCache
          /\ \A c \in DOMAIN hist.cg0 : hist.cg0[c].procs # {}) =>
         /\ cgroups' = hist.cg0
         /\ rs'.replays = << >>
         /\ HandlerCalls(rs'.calls) = << >>
         /\ C10_Deletions(rs'.calls) = {}

C10_SweepDeletesEmptyCgroupsOnly == [][C10_Step]_vars

\* the sweep has deleted a cgroup without a live process and left one with a
\* live process
C10_Witness ==
    /\ rs.pc = "walk"
    /\ \E c \in DOMAIN hist.cg0 :
         hist.cg0[c].procs = {} /\ c \notin DOMAIN cgroups
    /\ \E c \in DOMAIN hist.cg0 :
         hist.cg0[c].procs # {} /\ c \in DOMAIN cgroups

(***************************************************************************)
(* C11: once ReSync has obtained the walk it returns success, and when it  *)
(* has returned it has read every id the store held, in the order of the   *)
(* walk, and has replayed Start for every live process of every readable   *)
(* record's mark, whichever of the reads, removals and replays failed.     *)
(***************************************************************************)
\* the calls ReSync made to read a record
C11_Reads == SelectSeq(rs.calls, LAMBDA c : c.fn = "GetContextInfo")

C11_ResyncGoesOnAfterFailures ==
    rs.pc = "done" =>
        /\ last.op = "ReSync" /\ ~last.err
        /\ [i \in 1..Len(C11_Reads) |-> C11_Reads[i].id]
             = [i \in 1..Cardinality(DOMAIN hist.st0) |->
                  <<"/">> \o Sorted(DOMAIN hist.st0)[i]]
        /\ \A k \in Readable(hist.st0) :
             Cardinality(ReplaysOf(hist.st0[k].EventInfo)) = Cardinality(Carrying(k))

\* a replay failed and the next process of the same record was replayed
\* after it
C11_Witness ==
    /\ rs.pc = "done"
    /\ ~last.err
    /\ \E i \in 1..Len(rs.replays) : \E j \in (i+1)..Len(rs.replays) :
         /\ rs.replays[i].err
         /\ rs.replays[j].ev.PUID = rs.replays[i].ev.PUID

(***************************************************************************)
(* C13: a Stop that looks for a Membership Entry and finds none for the    *)
(* identifier it resolved returns success, calls no collaborator and       *)
(* changes neither the indices nor the store nor the cgroups; hence the    *)
(* same Stop delivered again after any Stop would change nothing and call  *)
(* nobody, and a Stop that names a process which is in no index and in no  *)
(* member set leaves every unit as it was.                                 *)
(***************************************************************************)
\* the name a Stop event carries: the last component of its cgroup path, or
\* of its unit identifier when it has no cgroup path
C13_Named(ev) ==
    IF ev.Cgroup # EmptyStr THEN AfterLastSlash(ev.Cgroup) ELSE AfterLastSlash(ev.PUID)

\* the Stop is neither refused nor the one of the base cgroup
C13_Looked(ev) ==
    /\ ev.Cgroup # EmptyStr => regStopMatch(ev.Cgroup)
    /\ <<"/">> \o C13_Named(ev) # triremeBaseCgroup

\* the identifier the entry is looked up with
C13_Resolved(ev) ==
    IF C13_Named(ev) \in DOMAIN pidToPU
    THEN pidToPU[C13_Named(ev)] ELSE <<"/">> \o C13_Named(ev)

C13_Step ==
    (StopStep /\ C13_Looked(last'.ev)) =>
        /\ C13_Resolved(last'.ev) \notin DOMAIN putoPidMap =>
             /\ ~last'.err
             /\ last'.calls = << >>
             /\ UNCHANGED <<putoPidMap, pidToPU, contextStore, cgroups>>
        /\ LET again == Stop(putoPidMap', pidToPU', contextStore', cgroups',
                             last'.ev, {})
           IN /\ ~again.err
              /\ again.calls = << >>
              /\ again.puto = putoPidMap' /\ again.p2pu = pidToPU'
              /\ again.st = contextStore' /\ again.cg = cgroups'
        /\ (C13_Named(last'.ev) \notin DOMAIN pidToPU
              /\ UnitsOf(putoPidMap, C13_Named(last'.ev)) = {}) =>
             UNCHANGED <<putoPidMap, pidToPU, contextStore>>

C13_StopWithoutEntryIsNoOp == [][C13_Step]_vars

\* the Stop of a process found no entry while units are Active
C13_Witness ==
    /\ last.op = "Stop"
    /\ last.ev.Cgroup \in {CgroupPath(p) : p \in NumPids}
    /\ last.calls = << >>
    /\ ~last.err
    /\ putoPidMap # EmptyCache

(***************************************************************************)
(* C14: a Stop that is treated as the Stop of the base cgroup makes one    *)
(* call, the deletion of the base path, returns success and changes        *)
(* neither the indices nor the store nor the cgroups of the processes; and *)
(* a Stop that names a unit by its identifier, or a process by the cgroup  *)
(* path of the process, is never treated so.                               *)
(***************************************************************************)
\* the calls that delete the base path
C14_BaseDeletions(calls) == {i \in 1..Len(calls) : calls[i].fn = "Deletebasepath"}

\* the Stop names a unit by an identifier, or a process by its cgroup path
C14_ForUnitOrProcess(ev) ==
    \/ ev.Cgroup = EmptyStr /\ ev.PUID # EmptyStr /\ LastIndexSlash(ev.PUID) = 0
    \/ /\ ev.Cgroup # EmptyStr
       /\ ev.Cgroup = CgroupPath(AfterLastSlash(ev.Cgroup))
       /\ Atoi(AfterLastSlash(ev.Cgroup)).ok

C14_Step ==
    StopStep =>
        /\ C14_BaseDeletions(last'.calls) # {} =>
             /\ Len(last'.calls) = 1
             /\ last'.calls[1].id = triremeBaseCgroup
             /\ ~last'.err
             /\ UNCHANGED <<putoPidMap, pidToPU, contextStore, cgroups>>
        /\ C14_ForUnitOrProcess(last'.ev) => C14_BaseDeletions(last'.calls) = {}

C14_BaseStopOnlyForBasePath == [][C14_Step]_vars

(***************************************************************************)
(* C18: a Stop that takes the last member out of a unit makes these calls, *)
(* in this order, whichever of them fail: Stop to the policy handler,      *)
(* removal of the Membership Entry, removal of the Context Record, Destroy *)
(* to the policy handler, deletion of the cgroup of the process; it        *)
(* returns the error of the cgroup deletion and of no other call, and the  *)
(* entry of the unit and the index entry of the process are gone.          *)
(***************************************************************************)
C18_Step ==
    (StopStep /\ C13_Looked(last'.ev)
       /\ C13_Resolved(last'.ev) \in DOMAIN putoPidMap
       /\ putoPidMap[C13_Resolved(last'.ev)].pidlist \ {C13_Named(last'.ev)} = {}) =>
        LET unit == C13_Resolved(last'.ev)
            published == putoPidMap[unit].publishedContextID
        IN /\ Sigs(last'.calls) =
                <<<<"HandlePUEvent", published, "EventStop">>,
                  <<"putoPidMap.Remove", unit, "">>,
                  <<"RemoveContext", unit, "">>,
                  <<"HandlePUEvent", published, "EventDestroy">>,
                  <<"DeleteCgroup", C13_Named(last'.ev), "">>>>
           /\ last'.err = ~last'.calls[5].ok
           /\ unit \notin DOMAIN putoPidMap'
           /\ C13_Named(last'.ev) \notin DOMAIN pidToPU'

C18_TeardownIsBestEffort == [][C18_Step]_vars

\* a teardown in which the policy handler refused Stop and Destroy and the
\* store refused the removal has deleted the cgroup and returned success
C18_Witness ==
    /\ last.op = "Stop"
    /\ Len(last.calls) = 5
    /\ ~last.calls[1].ok /\ ~last.calls[3].ok /\ ~last.calls[4].ok
    /\ last.calls[5].ok
    /\ ~last.err

(***************************************************************************)
(* C19: a Start asks the store to write a Context Record only as the last  *)
(* call of a Start for a unit without entry, after the extractor,          *)
(* SetPURuntime, the Start activation, Creategroup, AssignMark and         *)
(* AddProcess have succeeded in this order; the unit then has its entry,   *)
(* the cgroup of the triggering process exists and carries the mark of the *)
(* record, and the record written is that mark with the event; and no      *)
(* other step puts a record in the store or changes one.                   *)
(***************************************************************************)
\* the positions of the calls that write a record
C19_Writes(calls) == {i \in 1..Len(calls) : calls[i].fn = "StoreContext"}

C19_Step ==
    /\ (StartStep /\ C19_Writes(StartOf(last', rs').calls) # {}) =>
         LET o == StartOf(last', rs')
             unit == o.ev.PUID
         IN /\ unit \notin DOMAIN putoPidMap
            /\ [i \in 1..Len(o.calls) |-> <<o.calls[i].fn, o.calls[i].arg>>] =
                 <<<<"metadataExtractor", "">>, <<"SetPURuntime", "">>,
                   <<"HandlePUEvent", "EventStart">>, <<"Creategroup", "">>,
                   <<"AssignMark", "">>, <<"AddProcess", "">>,
                   <<"CollectContainerEvent", "">>, <<"StoreContext", "">>>>
            /\ \A i \in 1..(Len(o.calls) - 1) : o.calls[i].ok
            /\ unit \in DOMAIN putoPidMap'
            /\ o.ev.PID \in DOMAIN cgroups'
            /\ o.calls[Len(o.calls)].ok =>
                 /\ HasRecord(contextStore', unit)
                 /\ contextStore'[StoreKey(unit)].EventInfo = o.ev
                 /\ ParseUint(contextStore'[StoreKey(unit)].MarkVal).ok
                 /\ cgroups'[o.ev.PID].mark =
                       ParseUint(contextStore'[StoreKey(unit)].MarkVal).val
    /\ \A k \in Readable(contextStore') :
         (k \notin DOMAIN contextStore \/ contextStore[k] # contextStore'[k]) =>
            /\ StartStep
            /\ k = StoreKey(StartOf(last', rs').ev.PUID)
            /\ C19_Writes(StartOf(last', rs').calls) # {}

C19_RecordWrittenLast == [][C19_Step]_vars

\* a replay of ReSync has written the record of a unit again
C19_Witness ==
    /\ rs.pc \in {"walk", "replay"}
    /\ rs.replays # << >>
    /\ LET o == rs.replays[Len(rs.replays)]
       IN /\ C19_Writes(o.calls) # {}
          /\ ~o.err
          /\ HasRecord(contextStore, o.ev.PUID)
          /\ contextStore[StoreKey(o.ev.PUID)].EventInfo = o.ev

(***************************************************************************)
(* C20: a Start for a unit that has its entry and whose classifier binding *)
(* fails returns the error, and after it the process is in the member set  *)
(* of the unit and in the Process->Unit Index, the entry of the unit is    *)
(* the one it had with the process added, no other entry has changed, and  *)
(* the store is as it was.                                                 *)
(***************************************************************************)
C20_Step ==
    StartStep =>
      LET o == StartOf(last', rs')
          unit == o.ev.PUID
          pid == o.ev.PID
      IN (unit \in DOMAIN putoPidMap /\ o.err) =>
            /\ \A i \in 1..Len(o.calls) :
                 o.calls[i].fn \in {"Creategroup", "AssignMark", "AddProcess",
                                    "DeleteCgroup"}
            /\ DOMAIN putoPidMap' = DOMAIN putoPidMap
            /\ putoPidMap' = [putoPidMap EXCEPT
                                ![unit].pidlist = putoPidMap[unit].pidlist \cup {pid}]
            /\ pid \in DOMAIN pidToPU'
            /\ pid \notin DOMAIN pidToPU => pidToPU'[pid] = unit
            /\ \A q \in DOMAIN pidToPU : pidToPU'[q] = pidToPU[q]
            /\ contextStore' = contextStore

C20_NoRollbackOnActiveUnit == [][C20_Step]_vars

\* a Start for a unit with entry has failed in the classifier and the new
\* process is a member beside an older one
C20_Witness ==
    /\ last.op = "Start"
    /\ last.err
    /\ \E i \in 1..Len(last.calls) : last.calls[i].fn = "AddProcess" /\ ~last.calls[i].ok
    /\ \A i \in 1..Len(last.calls) : last.calls[i].fn # "metadataExtractor"
    /\ last.ev.PUID \in DOMAIN putoPidMap
    /\ last.ev.PID \in putoPidMap[last.ev.PUID].pidlist
    /\ Cardinality(putoPidMap[last.ev.PUID].pidlist) > 1
    /\ last.ev.PID \in DOMAIN pidToPU
    /\ HasRecord(contextStore, last.ev.PUID)

(***************************************************************************)
(* C15: the store is a map from ids to records (ids that name the same     *)
(* folder are one id).  While the file system fails no call: the store     *)
(* holds under each folder the record of the last store not followed by a  *)
(* remove, and nothing under the others; a store returns no error whether  *)
(* or not the id was there; a get returns that record, or Unknown          *)
(* ContextID when there is none, and a remove returns no error and leaves  *)
(* nothing, or Unknown ContextID when there was nothing; a call that       *)
(* returns Unknown ContextID leaves the store as it was.                   *)
(***************************************************************************)
C15_Folders == {StoreKey(id) : id \in StoreIds}

C15_StoreIsUpsertMap ==
    /\ \A folder \in C15_Folders \ hist.bad :
         IF folder \in DOMAIN hist.ref
         THEN folder \in DOMAIN contextStore
              /\ contextStore[folder] = hist.ref[folder]
         ELSE folder \notin DOMAIN contextStore
    /\ last.msg = Unknown => hist.same
    /\ hist.rest
    /\ hist.clean =>
         LET folder == StoreKey(last.id) IN
         CASE last.op = "StoreContext" ->
                ~last.err /\ contextStore[folder] = last.rec
           [] last.op = "GetContextInfo" ->
                /\ hist.same
                /\ IF folder \in DOMAIN hist.ref
                   THEN ~last.err /\ last.rec = hist.ref[folder]
                   ELSE last.err /\ last.msg = Unknown
           [] last.op = "RemoveContext" ->
                /\ folder \notin DOMAIN contextStore
                /\ IF hist.was # "nothing"
                   THEN ~last.err
                   ELSE last.err /\ last.msg = Unknown
           [] OTHER -> TRUE

\* a store has replaced the record an id had by another one
C15_Witness ==
    /\ last.op = "StoreContext"
    /\ ~last.err
    /\ hist.clean
    /\ hist.was = "record"
    /\ ~hist.same
    /\ contextStore[StoreKey(last.id)] = last.rec

(***************************************************************************)
(* C16: a get of an id whose record cannot be decoded returns an error     *)
(* and leaves no folder for the id: a get and a remove of the id then      *)
(* return Unknown ContextID and a walk does not yield it; a get that fails *)
(* on anything else leaves the store as it was.                            *)
(***************************************************************************)
\* nothing is left of the id
C16_Gone(id) ==
    /\ StoreKey(id) \notin DOMAIN contextStore
    /\ GetContextInfo(contextStore, id, FALSE).msg = Unknown
    /\ RemoveContext(contextStore, id, FALSE).msg = Unknown
    /\ \A i \in 1..Len(WalkStore(contextStore)) :
         WalkStore(contextStore)[i] # StoreKey(id)

C17_WalkYieldsIdsThenSentinel ==
    (walk.pc \in {"open", "closed"} /\ ~walk.err) =>
        LET sent == hist.sent
            n == Cardinality(walk.ids)
        IN /\ \A i \in 1..Len(sent) : sent[i] \in walk.ids \cup {EmptyStr}
           /\ \A i, j \in 1..Len(sent) : sent[i] = sent[j] => i = j
           /\ \A i \in 1..Len(sent) : sent[i] = EmptyStr => i = n + 1
           /\ Len(sent) <= n + 1
           /\ walk.got \o walk.buf = sent
           /\ walk.pc = "closed" => Len(sent) = n + 1 /\ sent[n + 1] = EmptyStr
           /\ WalkRead(walk) =>
                /\ Len(walk.got) = n + 1
                /\ {walk.got[i] : i \in 1..n} = walk.ids

\* the caller has read two ids and then the empty string from a channel that
\* is closed, and the store no longer holds what it held at the call
C17_Witness ==
    /\ walk.pc = "closed"
    /\ ~walk.err
    /\ WalkRead(walk)
    /\ Len(walk.got) = 3
    /\ walk.buf = << >>
    /\ DOMAIN contextStore # walk.ids

(***************************************************************************)
(* C12: at most one goroutine is between line 98 of Start or line 177 of   *)
(* Stop and its return, and it holds the lock all the way; and whenever    *)
(* no goroutine is there, the two indices, the store and the cgroups are   *)
(* what the calls made so far, Start replays of ReSync included, give when *)
(* they run one after the other in the order in which they took the lock.  *)
(***************************************************************************)
\* the goroutine has taken the lock and has not returned
C12_Inside(t) == thr[t].pc \notin {"idle"} \cup Waiting

\* the calls of the log run one after the other
RECURSIVE C12_Serial(_, _)
C12_Serial(state, log) ==
    IF log = << >> THEN state
    ELSE LET c == Head(log)
             r == IF c.op = "Start"
                  THEN Start(state.puto, state.p2pu, state.st, state.cg,
                             c.ev, c.ri, {})
                  ELSE Stop(state.puto, state.p2pu, state.st, state.cg, c.ev, {})
         IN C12_Serial([puto |-> r.puto, p2pu |-> r.p2pu, st |-> r.st,
                        cg |-> r.cg], Tail(log))

C12_Empty ==
    [puto |-> EmptyCache, p2pu |-> EmptyCache, st |-> EmptyCache, cg |-> EmptyCache]

C12_StartStopSerialized ==
    /\ \A t1, t2 \in Threads : (C12_Inside(t1) /\ C12_Inside(t2)) => t1 = t2
    /\ \A t \in Threads : C12_Inside(t) <=> mutex = t
    /\ (\A t \in Threads : ~C12_Inside(t)) =>
          [puto |-> putoPidMap, p2pu |-> pidToPU, st |-> contextStore,
           cg |-> cgroups] = C12_Serial(C12_Empty, hist.serial)

\* a Stop waits for the lock while a Start that came after another call is
\* between the classifier and the registration of its unit
C12_Witness ==
    /\ \E t1, t2 \in Threads :
         /\ thr[t1].pc = "Start:123"
         /\ mutex = t1
         /\ thr[t2].pc = "Stop:174"
         /\ TrimLeftSlash(thr[t2].contextID) \in DOMAIN pidToPU
    /\ Len(hist.serial) = 2

(***************************************************************************)
(* C21: a Start for a unit that has its entry calls the classifier for the *)
(* new process and nothing else (no extractor, no policy handler, no       *)
(* telemetry, no store); it changes the member set of the unit, the index  *)
(* of the process and the cgroup of the process only, and the mark it      *)
(* assigns is the one of the entry; the Runtime Info of an entry never     *)
(* changes while the entry is there; and an entry comes to be in a Start   *)
(* of its unit that succeeds.                                              *)
(***************************************************************************)
\* Start for a unit with entry: what it calls and what it changes
C21_ActiveStartFrame ==
    StartStep =>
      LET o == StartOf(last', rs')
          unit == o.ev.PUID
          pid == o.ev.PID
      IN unit \in DOMAIN putoPidMap =>
            /\ \A i \in 1..Len(o.calls) :
                 /\ o.calls[i].fn \in {"Creategroup", "AssignMark", "AddProcess",
                                      "DeleteCgroup"}
                 /\ o.calls[i].id = pid
            /\ putoPidMap' = [putoPidMap EXCEPT
                                ![unit].pidlist = putoPidMap[unit].pidlist \cup {pid}]
            /\ \A q \in DOMAIN pidToPU : q \in DOMAIN pidToPU' /\ pidToPU'[q] = pidToPU[q]
            /\ DOMAIN pidToPU' \subseteq DOMAIN pidToPU \cup {pid}
            /\ contextStore' = contextStore
            /\ DOMAIN cgroups' \ {pid} = DOMAIN cgroups \ {pid}
            /\ \A name \in DOMAIN cgroups \ {pid} : cgroups'[name] = cgroups[name]
            /\ (\E i \in 1..Len(o.calls) : o.calls[i].fn = "AssignMark" /\ o.calls[i].ok)
                  => /\ ParseUint(putoPidMap[unit].Info.CgroupMark).ok
                     /\ pid \in DOMAIN cgroups' =>
                          cgroups'[pid].mark =
                             ParseUint(putoPidMap[unit].Info.CgroupMark).val

\* the Runtime Info of an entry stays
C21_InfoStays ==
    \A unit \in DOMAIN putoPidMap \cap DOMAIN putoPidMap' :
        putoPidMap'[unit].Info = putoPidMap[unit].Info

\* an entry comes to be in a Start of its unit that succeeds
C21_MadeBySuccessfulStart ==
    \A unit \in DOMAIN putoPidMap' \ DOMAIN putoPidMap :
        /\ StartStep
        /\ StartOf(last', rs').ev.PUID = unit
        /\ ~StartOf(last', rs').err

C21_Step == C21_ActiveStartFrame /\ C21_InfoStays /\ C21_MadeBySuccessfulStart

C21_ActiveStartKeepsRuntime == [][C21_Step]_vars

\* what holds of it: the frame of a Start for a unit with entry, and the
\* Runtime Info that stays
C21_FrameAndInfo == [][C21_ActiveStartFrame /\ C21_InfoStays]_vars

(***************************************************************************)
(* C22: the published identifier of an entry is the raw contextID followed *)
(* by the mark the extractor returned; the Start that makes the entry has  *)
(* given that identifier to SetPURuntime and to the Start activation; the  *)
(* identifier of an entry never changes while the entry is there; and the  *)
(* Stop that removes the entry gives that identifier to the Stop and the   *)
(* Destroy it sends.                                                       *)
(***************************************************************************)
C22_Step ==
    /\ \A unit \in DOMAIN putoPidMap' \ DOMAIN putoPidMap :
         /\ StartStep
         /\ LET o == StartOf(last', rs')
                published == putoPidMap'[unit].publishedContextID
            IN /\ o.ev.PUID = unit
               /\ published = unit \o putoPidMap'[unit].Info.CgroupMark
               /\ Len(HandlerCalls(o.calls)) = 2
               /\ Sig(HandlerCalls(o.calls)[1]) = <<"SetPURuntime", published, "">>
               /\ Sig(HandlerCalls(o.calls)[2]) =
                     <<"HandlePUEvent", published, "EventStart">>
    /\ \A unit \in DOMAIN putoPidMap \cap DOMAIN putoPidMap' :
         putoPidMap'[unit].publishedContextID = putoPidMap[unit].publishedContextID
    /\ \A unit \in DOMAIN putoPidMap \ DOMAIN putoPidMap' :
         \/ putoPidMap' = EmptyCache /\ last' = last
         \/ /\ StopStep
            /\ LET published == putoPidMap[unit].publishedContextID
               IN [i \in 1..Len(HandlerCalls(last'.calls)) |->
                      <<HandlerCalls(last'.calls)[i].id,
                        HandlerCalls(last'.calls)[i].arg>>]
                  = <<<<published, "EventStop">>, <<published, "EventDestroy">>>>
    /\ (StopStep /\ HandlerCalls(last'.calls) # << >>) =>
         DOMAIN putoPidMap \ DOMAIN putoPidMap' # {}

C22_PublishedIdentifierIsStable == [][C22_Step]_vars

\* a unit that had two members was torn down by the Stop of the second, with
\* the identifier it was published under
C22_Witness ==
    /\ last.op = "Stop"
    /\ Len(HandlerCalls(last.calls)) = 2
    /\ hist.events >= 4
    /\ \E unit \in Units, n \in 1..MaxMark :
         /\ unit \notin DOMAIN putoPidMap
         /\ \A i \in 1..2 : HandlerCalls(last.calls)[i].id = unit \o FormatUint(n)

(***************************************************************************)
(* C23: a call of Create, Pause or Destroy leaves the indices, the store,  *)
(* the cgroups, the lock and the calls in progress as they are, whoever    *)
(* holds the lock; Create makes one call, the Create notice with the raw   *)
(* identifier of the unit, and returns its result; Pause makes one call,   *)
(* the Pause notice, and returns its result; Destroy makes no call and     *)
(* returns no error.                                                       *)
(***************************************************************************)
\* the step is a call of Create, Pause or Destroy
C23_NoticeStep == last = Returned /\ last'.op \in {"Create", "Pause", "Destroy"}

\* nothing of the processor changes, and the lock is not asked for
C23_Frame ==
    /\ UNCHANGED <<putoPidMap, pidToPU, contextStore, cgroups, mutex, thr>>

\* the call is the one notice, and its result is returned
C23_Forwards(o, id, event) ==
    /\ Len(o.calls) = 1
    /\ Sig(o.calls[1]) = <<"HandlePUEvent", id, event>>
    /\ o.err = ~o.calls[1].ok

C23_Create(o) == o.op = "Create" => C23_Forwards(o, o.ev.PUID, "EventCreate")

C23_Destroy(o) == o.op = "Destroy" => o.calls = << >> /\ ~o.err

C23_Step ==
    C23_NoticeStep =>
        /\ C23_Frame
        /\ C23_Create(last')
        /\ C23_Destroy(last')
        /\ last'.op = "Pause" =>
             /\ Len(last'.calls) = 1
             /\ last'.calls[1].fn = "HandlePUEvent"
             /\ last'.calls[1].arg = "EventPause"
             /\ last'.err = ~last'.calls[1].ok

C23_NoticesOnlyForward == [][C23_Step]_vars

(***************************************************************************)
(* C23, as it holds: the same, but a Pause whose event has a cgroup path   *)
(* that does not match the release pattern makes no call and returns an    *)
(* error; any other Pause makes one call, the Pause notice with "/" and    *)
(* the last component of the cgroup path or of the identifier of the unit, *)
(* and returns its result.                                                 *)
(***************************************************************************)
C23_AmendedStep ==
    C23_NoticeStep =>
        /\ C23_Frame
        /\ C23_Create(last')
        /\ C23_Destroy(last')
        /\ last'.op = "Pause" =>
             IF last'.ev.Cgroup # EmptyStr /\ ~regStopMatch(last'.ev.Cgroup)
             THEN last'.calls = << >> /\ last'.err
             ELSE C23_Forwards(last',
                               <<"/">> \o AfterLastSlash(
                                   IF last'.ev.Cgroup # EmptyStr
                                   THEN last'.ev.Cgroup ELSE last'.ev.PUID),
                               "EventPause")

C23_NoticesForwardUnlessMalformed == [][C23_AmendedStep]_vars

\* a Pause was forwarded while another goroutine held the lock in a Start
C23_Witness ==
    /\ last.op = "Pause"
    /\ Len(last.calls) = 1
    /\ mutex # Unlocked
    /\ thr[mutex].pc = "Start:123"
    /\ putoPidMap # EmptyCache

(***************************************************************************)
(* C24: a Start whose unit identifier regStart does not match, and a Stop  *)
(* whose cgroup path regStop does not match (or, without cgroup path,      *)
(* whose unit identifier regStart does not match) changes nothing: no step *)
(* of a handler that was called with such an event changes the indices,    *)
(* the store or the cgroups.                                               *)
(***************************************************************************)
\* the event matches the pattern of its handler
C24_WellFormed(op, eventInfo) ==
    IF op = "Stop" /\ eventInfo.Cgroup # EmptyStr
    THEN regStopMatch(eventInfo.Cgroup)
    ELSE regStartMatch(eventInfo.PUID)

C24_Step ==
    \A t \in Threads :
        (/\ thr[t].pc # "idle"
         /\ ~C24_WellFormed(thr[t].op, thr[t].ev)
         /\ thr'[t] # thr[t])
        => UNCHANGED <<putoPidMap, pidToPU, contextStore, cgroups>>

C24_MalformedEventsRejected == [][C24_Step]_vars

(***************************************************************************)
(* C25: a Start, from the transport or replayed by ReSync, for a process   *)
(* that is a member of the unit and indexed under it leaves the entry, the *)
(* index and the store as they are, calls neither SetPURuntime nor the     *)
(* Start activation, and leaves the process its cgroup with the mark of    *)
(* the unit.                                                               *)
(***************************************************************************)
\* the process is a member of the unit and indexed under it
C25_Tracked(unit, pid) ==
    /\ unit \in DOMAIN putoPidMap
    /\ pid \in putoPidMap[unit].pidlist
    /\ pid \in DOMAIN pidToPU
    /\ pidToPU[pid] = unit

\* the process has its cgroup with the mark of the unit
C25_Classified(cg, unit, pid) ==
    /\ pid \in DOMAIN cg
    /\ ParseUint(putoPidMap[unit].Info.CgroupMark).ok
    /\ cg[pid].mark = ParseUint(putoPidMap[unit].Info.CgroupMark).val

\* the indices and the store stay, the policy handler is not called
C25_Same(o) ==
    /\ UNCHANGED <<putoPidMap, pidToPU, contextStore>>
    /\ HandlerCalls(o.calls) = << >>

\* the cgroup of the process was deleted by the call
C25_Deleted(o) ==
    \E i \in 1..Len(o.calls) : o.calls[i].fn = "DeleteCgroup" /\ o.calls[i].ok

C25_Step ==
    StartStep =>
      LET o == StartOf(last', rs')
          unit == o.ev.PUID
          pid == o.ev.PID
      IN C25_Tracked(unit, pid) /\ C25_Classified(cgroups, unit, pid) =>
            /\ C25_Same(o)
            /\ C25_Classified(cgroups', unit, pid)

C25_StartIsIdempotent == [][C25_Step]_vars

\* what holds of it: the indices, the store and the handler as stated; the
\* classification stays unless AssignMark or AddProcess fails in the repeated
\* Start, which then deletes the cgroup of the process
C25_AmendedStep ==
    StartStep =>
      LET o == StartOf(last', rs')
          unit == o.ev.PUID
          pid == o.ev.PID
      IN C25_Tracked(unit, pid) /\ C25_Classified(cgroups, unit, pid) =>
            /\ C25_Same(o)
            /\ IF C25_Deleted(o)
               THEN /\ pid \notin DOMAIN cgroups'
                    /\ o.err
                    /\ \E i \in FailedCalls(o.calls) :
                          o.calls[i].fn \in {"AssignMark", "AddProcess"}
               ELSE /\ C25_Classified(cgroups', unit, pid)
                    /\ cgroups[pid].procs \subseteq cgroups'[pid].procs
                    /\ ~o.err => /\ Atoi(pid).ok
                                 /\ Atoi(pid).val \in cgroups'[pid].procs

C25_StartIsIdempotentUnlessBindingFails == [][C25_AmendedStep]_vars

\* a repeated Start has returned without error: the process is a member of
\* the unit, indexed under it, in its cgroup with the mark of the unit, and
\* the Start made classifier calls only
C25_Witness ==
    /\ last.op = "Start"
    /\ ~last.err
    /\ HandlerCalls(last.calls) = << >>
    /\ Len(last.calls) = 3
    /\ C25_Tracked(last.ev.PUID, last.ev.PID)
    /\ C25_Classified(cgroups, last.ev.PUID, last.ev.PID)
    /\ hist.fresh = << >>
    /\ DOMAIN putoPidMap = {last.ev.PUID}
    /\ putoPidMap[last.ev.PUID].pidlist = {last.ev.PID}

(***************************************************************************)
(* C26: a call of ReSync returns; it does not hold the lock itself and its *)
(* replays get the lock in the end; when it returns after the walk was     *)
(* obtained it has read the empty string and the walk holds nothing more,  *)
(* and the goroutine of the walk ends.                                     *)
(***************************************************************************)
\* the goroutine of ReSync holds the lock inside a Start it replays only
C26_NoLockOfItsOwn ==
    mutex = Syncer => rs.pc = "called" /\ thr[Syncer].pc \notin Waiting \cup {"idle"}

\* ReSync has returned: the walk is drained up to the empty string
C26_Drained ==
    rs.pc = "done" /\ ~rs.err =>
        /\ rs.got # << >>
        /\ rs.got[Len(rs.got)] = EmptyStr
        /\ \A i \in 1..(Len(rs.got) - 1) : rs.got[i] # EmptyStr
        /\ walk.files = << >>
        /\ walk.buf = << >>

C26_ReSyncTerminates ==
    /\ [](C26_NoLockOfItsOwn /\ C26_Drained)
    /\ (rs.pc # "idle") ~> (rs.pc = "done")
    /\ (thr[Syncer].pc \in Waiting) ~> (mutex = Syncer)
    /\ (walk.pc = "open") ~> (walk.pc = "closed")

\* ReSync has returned after a walk with a record, with a replay that was
\* called while the other goroutine held the lock; the goroutine of the walk
\* has ended
C26_Witness ==
    /\ rs.pc = "done"
    /\ ~rs.err
    /\ Len(rs.got) >= 2
    /\ rs.replays >= 1
    /\ rs.waited
    /\ walk.pc = "closed"

(***************************************************************************)
(* C27: between the calls of Start and Stop every entry of the cache has a *)
(* member: an entry comes to be with one member, the process of the Start  *)
(* that makes it, and the Stop that takes the last member out of an entry  *)
(* takes the entry out of the cache; nothing else takes an entry out while *)
(* the controller runs.                                                    *)
(***************************************************************************)
C27_NoEmptyEntry ==
    \A unit \in DOMAIN putoPidMap : putoPidMap[unit].pidlist # {}

\* the step is the restart of the controller
C27_Restart == hist'.phase = "down" /\ last' = last

\* the process a Stop that generateContextID accepts looks up
C27_Stopped(eventInfo) == TrimLeftSlash(generateContextID(eventInfo).contextID)

C27_Step ==
    /\ \A unit \in DOMAIN putoPidMap' \ DOMAIN putoPidMap :
         /\ StartStep
         /\ StartOf(last', rs').ev.PUID = unit
         /\ putoPidMap'[unit].pidlist = {StartOf(last', rs').ev.PID}
    /\ \A unit \in DOMAIN putoPidMap \ DOMAIN putoPidMap' :
         \/ C27_Restart
         \/ /\ StopStep
            /\ ~generateContextID(last'.ev).err
            /\ putoPidMap[unit].pidlist = {C27_Stopped(last'.ev)}
            /\ C27_Stopped(last'.ev) \in DOMAIN pidToPU
            /\ pidToPU[C27_Stopped(last'.ev)] = unit
    /\ StopStep /\ ~generateContextID(last'.ev).err =>
         LET stoppedpid == C27_Stopped(last'.ev) IN
         \A unit \in DOMAIN putoPidMap :
            (/\ stoppedpid \in DOMAIN pidToPU
             /\ pidToPU[stoppedpid] = unit
             /\ putoPidMap[unit].pidlist \subseteq {stoppedpid})
            => unit \notin DOMAIN putoPidMap'

C27_EntriesHaveMembers == [](C27_NoEmptyEntry) /\ [][C27_Step]_vars

\* a Stop has taken the last member out of an entry and the entry out of the
\* cache, while another entry with its member stays
C27_Witness ==
    /\ last.op = "Stop"
    /\ hist.closed # << >>
    /\ hist.closed[1] \notin DOMAIN putoPidMap
    /\ putoPidMap # EmptyCache
    /\ C27_NoEmptyEntry

(***************************************************************************)
(* C28: between the calls of Start and Stop every member of an entry is in *)
(* the index, under the unit of that entry, so that the Stop of the        *)
(* process finds the entry.                                                *)
(***************************************************************************)
C28_MembersAreIndexedUnderTheirUnit ==
    \A unit \in DOMAIN putoPidMap :
        \A pid \in putoPidMap[unit].pidlist :
            /\ pid \in DOMAIN pidToPU
            /\ pidToPU[pid] = unit

====
